---- MODULE Spec2Model ----
(***************************************************************************)
(* Price-history reconciliation of hotprices-au-rs: the data model of      *)
(* src/product.rs (ProductInfo, ProductSnapshot, ProductHistory,           *)
(* PriceSnapshot), deduplicate_products, merge_price_history and the       *)
(* per-day step of analysis::do_analysis that drives them.                 *)
(***************************************************************************)
EXTENDS Integers, Sequences, FiniteSets, TLC

VARIABLES
    products,           \* do_analysis: `products`, the history list carried from day to day
    previous_products,  \* merge_price_history: `old_items` of the latest call
    loaded,             \* do_analysis: the batch returned by load_daily_snapshot
    new_products,       \* do_analysis: the batch returned by deduplicate_products
    store,              \* do_analysis: `store`, the Option<Store> filter of the latest call
    day,                \* do_analysis: the day of the latest call (0 before the first)
    runs,               \* number of do_analysis days processed so far
    search_hit,         \* which of several equal elements slice::binary_search reports
    fetching,           \* woolies Category::fetch_products: its arguments, locals and position
    stored_products,    \* woolies Category: the field `products`
    category,           \* coles Category: the fields buf, page, product_count, finished
    advance,            \* coles Category: what the calls of Iterator::next did so far
    policy,             \* retry.rs: the RetryPolicy {total, max_backoff}
    retrying,           \* RetryPolicy::retry: its loop variable and what the call did so far
    files,              \* the cache directory of an FsCache: file name -> content
    caching,            \* FsCache::get_or_fetch: what its calls did so far
    converting,         \* conversion: the raw items of the latest batch and what became of them
    quantifying,        \* BundleProduct::get_quantity_and_unit: its latest call and result
    output_dir,         \* the files do_analysis reads and writes
    analysing,          \* do_analysis: the run in progress or last finished
    syncing,            \* do_sync: its runs on one store and UTC day, and the snapshot file
    requesting,         \* the stores' HTTP clients: the call in progress or last finished
    racing              \* two callers of get_or_fetch on one key: where each of them is

mergeVars ==
    <<products, previous_products, loaded, new_products, day, runs, search_hit>>

paginationVars == <<fetching, stored_products, category, advance>>

retryVars == <<policy, retrying>>

cacheVars == <<files, caching>>

crawlVars == <<paginationVars, retryVars, cacheVars>>

clientVars == <<requesting, racing>>

pipelineVars == <<converting, quantifying, output_dir, analysing, syncing, clientVars>>

vars == <<mergeVars, store, crawlVars, pipelineVars>>

-----------------------------------------------------------------------------
(* Bounds of the model *)

\* days of do_analysis per behaviour of Spec, and the length of a day's batch there
MaxRuns == 2
MaxBatch == 2

\* days of do_analysis per behaviour of DeepSpec (batches of at most one snapshot)
MaxDeepRuns == 3

\* days of do_analysis per behaviour of HistorySpec (no --store, batches of at most one)
MaxHistoryRuns == 3

\* length of the batch given to deduplicate_products in DedupSpec
MaxDedupLen == 3

\* capture days 1..MaxDay
MaxDay == 3

-----------------------------------------------------------------------------
(* Data model *)

\* enum Store { Coles, Woolies }
Stores == {"coles", "woolies"}

\* Option<Store>::None
NoStore == "none"

StoreFilters == Stores \cup {NoStore}

\* Store::iter() order: Coles before Woolies
StoreRank(s) == IF s = "coles" THEN 0 ELSE 1

ProductIds == {1, 2}

\* Price { price: i32 } in cents
Prices == {50, 100}

\* the descriptive fields of ProductInfo (name, description, unit, ...) as one value
Names == {"a", "b"}

Days == 1..MaxDay

ProductInfos == [id : ProductIds, name : Names, store : Stores]

PriceSnapshots == [date : Days, price : Prices]

ProductSnapshots == [product_info : ProductInfos, price_snapshot : PriceSnapshots]

\* (store, id): the key of old_map and of the dedup lookup
Key(item) == <<item.product_info.store, item.product_info.id>>

Keys == Stores \X ProductIds

-----------------------------------------------------------------------------
(* PriceSnapshot ordering and NonEmpty::sort *)

\* a comparison by date without the reversal: the older date is the smaller
CmpOldestFirst(a, b) ==
    IF a.date < b.date THEN -1
    ELSE IF a.date > b.date THEN 1
    ELSE 0

\* impl Ord for PriceSnapshot: -1 Less, 0 Equal, 1 Greater; the newer date is the smaller
Cmp(a, b) ==
    IF a.date < b.date THEN 1
    ELSE IF a.date > b.date THEN -1
    ELSE 0

\* place x behind every element that does not compare greater than it
RECURSIVE InsertSorted(_, _)
InsertSorted(x, s) ==
    IF s = <<>> THEN <<x>>
    ELSE IF Cmp(x, Head(s)) < 0 THEN <<x>> \o s
    ELSE <<Head(s)>> \o InsertSorted(x, Tail(s))

\* slice::sort, a stable sort by Cmp
RECURSIVE SliceSort(_)
SliceSort(s) ==
    IF s = <<>> THEN <<>>
    ELSE InsertSorted(s[Len(s)], SliceSort(SubSeq(s, 1, Len(s) - 1)))

\* slice::binary_search on a sorted slice, as a 0-based index: Ok(i) of an element
\* equal to x (which one among several is left to the build), else Err(i) of the
\* insertion point; NonEmpty::sort uses the index of either case alike
BinarySearch(s, x) ==
    LET less == Cardinality({i \in 1..Len(s) : Cmp(s[i], x) < 0})
        equal == Cardinality({i \in 1..Len(s) : Cmp(s[i], x) = 0})
    IN  IF equal = 0 THEN less
        ELSE IF search_hit = "lowest" THEN less
        ELSE less + equal - 1

\* Vec::insert at a 0-based index
VecInsert(s, index, x) ==
    SubSeq(s, 1, index) \o <<x>> \o SubSeq(s, index + 1, Len(s))

\* a sort that sorts the tail and leaves the head where it is
SortTailOnly(s) == <<s[1]>> \o SliceSort(Tail(s))

\* NonEmpty::sort: sort the tail, then move the head to where it belongs
NonEmptySort(s) ==
    LET head == s[1]
        tail == SliceSort(Tail(s))
        index == BinarySearch(tail, head)
    IN  IF index # 0
        THEN <<tail[1]>> \o VecInsert(Tail(tail), index - 1, head)
        ELSE <<head>> \o tail

-----------------------------------------------------------------------------
(* ProductHistory *)

\* an update that records the snapshot's point without comparing prices
PricesAlwaysInserted(price_history, snapshot) ==
    <<snapshot.price_snapshot>> \o price_history

\* the price sequence after the price comparison of update_from_snapshot, before the sort
PricesWithSnapshot(price_history, snapshot) ==
    IF price_history[1].price # snapshot.price_snapshot.price
    THEN <<snapshot.price_snapshot>> \o price_history
    ELSE price_history

\* an update that takes the snapshot's ProductInfo only together with a new price
UpdateInfoOnNewPrice(old, snapshot) ==
    [product_info |-> IF old.price_history[1].price # snapshot.price_snapshot.price
                      THEN snapshot.product_info
                      ELSE old.product_info,
     price_history |-> NonEmptySort(PricesWithSnapshot(old.price_history, snapshot))]

\* ProductHistory::update_from_snapshot, the updated history
UpdateFromSnapshot(old, snapshot) ==
    [product_info |-> snapshot.product_info,
     price_history |-> NonEmptySort(PricesWithSnapshot(old.price_history, snapshot))]

\* a conversion that drops the snapshot's price point
FromSnapshotWithoutPoint(snapshot) ==
    [product_info |-> snapshot.product_info, price_history |-> <<>>]

\* impl From<ProductSnapshot> for ProductHistory
FromSnapshot(snapshot) ==
    [product_info |-> snapshot.product_info,
     price_history |-> <<snapshot.price_snapshot>>]

-----------------------------------------------------------------------------
(* merge_price_history *)

\* the value of old_map for a key it does not hold
Absent == [absent |-> TRUE]

\* store_filter.is_some_and(|s| s != item.store())
FilteredOut(store_filter, item) ==
    store_filter # NoStore /\ store_filter # item.product_info.store

\* a first loop that skips the histories of the other stores
PassedThroughNothing(old_items, store_filter) == <<>>

\* first loop: the histories of the other stores, pushed to result in input order
RECURSIVE PassedThrough(_, _)
PassedThrough(old_items, store_filter) ==
    IF old_items = <<>> THEN <<>>
    ELSE IF FilteredOut(store_filter, Head(old_items))
         THEN <<Head(old_items)>> \o PassedThrough(Tail(old_items), store_filter)
         ELSE PassedThrough(Tail(old_items), store_filter)

\* first loop: old_map, a later history of a key replacing an earlier one
RECURSIVE OldMap(_, _)
OldMap(old_items, store_filter) ==
    IF old_items = <<>> THEN [k \in Keys |-> Absent]
    ELSE LET item == old_items[Len(old_items)]
             rest == OldMap(SubSeq(old_items, 1, Len(old_items) - 1), store_filter)
         IN  IF FilteredOut(store_filter, item) THEN rest
             ELSE [rest EXCEPT ![Key(item)] = item]

\* second loop: each snapshot updates and consumes its history, or becomes a new one
RECURSIVE MergeLoop(_, _, _)
MergeLoop(new_items, old_map, result) ==
    IF new_items = <<>> THEN result
    ELSE LET new == Head(new_items)
         IN  IF old_map[Key(new)] # Absent
             THEN MergeLoop(Tail(new_items),
                            [old_map EXCEPT ![Key(new)] = Absent],
                            Append(result, UpdateFromSnapshot(old_map[Key(new)], new)))
             ELSE MergeLoop(Tail(new_items), old_map, Append(result, FromSnapshot(new)))

\* a merge that carries the old histories missing from the batch over to the result
MergeRetainingMissing(old_items, new_items, store_filter) ==
    MergeLoop(new_items,
              OldMap(old_items, store_filter),
              PassedThrough(old_items, store_filter))
    \o SelectSeq(old_items,
                 LAMBDA h : /\ ~FilteredOut(store_filter, h)
                            /\ \A i \in 1..Len(new_items) : Key(new_items[i]) # Key(h))

\* merge_price_history
MergePriceHistory(old_items, new_items, store_filter) ==
    MergeLoop(new_items,
              OldMap(old_items, store_filter),
              PassedThrough(old_items, store_filter))

-----------------------------------------------------------------------------
(* deduplicate_products *)

\* a deduplication in which a later snapshot of a key replaces the one kept
RECURSIVE DedupLoopKeepLast(_, _, _)
DedupLoopKeepLast(items, lookup, dedup_products) ==
    IF items = <<>> THEN dedup_products
    ELSE LET product == Head(items)
         IN  IF Key(product) \in lookup
             THEN DedupLoopKeepLast(Tail(items), lookup,
                     [n \in 1..Len(dedup_products) |->
                         IF Key(dedup_products[n]) = Key(product)
                         THEN product
                         ELSE dedup_products[n]])
             ELSE DedupLoopKeepLast(Tail(items), lookup \cup {Key(product)},
                                    Append(dedup_products, product))

\* the loop of deduplicate_products over lookup and dedup_products
RECURSIVE DedupLoop(_, _, _)
DedupLoop(items, lookup, dedup_products) ==
    IF items = <<>> THEN dedup_products
    ELSE LET product == Head(items)
         IN  IF Key(product) \in lookup
             THEN DedupLoop(Tail(items), lookup, dedup_products)
             ELSE DedupLoop(Tail(items), lookup \cup {Key(product)},
                            Append(dedup_products, product))

\* a deduplication that keeps every snapshot
KeepAll(items) == items

\* deduplicate_products
DeduplicateProducts(items) == DedupLoop(items, {}, <<>>)

-----------------------------------------------------------------------------
(* load_daily_snapshot and do_analysis *)

\* sequences over S of length at most n
SeqsUpTo(S, n) == UNION {[1..k -> S] : k \in 0..n}

\* what load_daily_snapshot can return for a day: snapshots dated that day, of the
\* filter's store only, the stores in Store::iter() order
DailySnapshots(d, store_filter, n) ==
    {b \in SeqsUpTo({s \in ProductSnapshots : s.price_snapshot.date = d}, n) :
        /\ \A i \in 1..Len(b) : ~FilteredOut(store_filter, b[i])
        /\ \A i \in 1..Len(b) : \A j \in i + 1..Len(b) :
              StoreRank(b[i].product_info.store) <= StoreRank(b[j].product_info.store)}

\* woolies Category before any fetch_products call: `products` is #[serde(default)]
NotFetching ==
    [quick |-> FALSE, page |-> 1, products |-> <<>>, position |-> "idle",
     calls |-> 0, requested |-> <<>>, responded |-> FALSE,
     new_product_count |-> 0, total_record_count |-> 0, outcome |-> "none"]

\* coles Category::new
NewCategory == [buf |-> <<>>, page |-> 1, product_count |-> 0, finished |-> FALSE]

\* coles Category on which next() was never called
NotAdvanced ==
    [calls |-> 0, yielded |-> "nothing", requested |-> <<>>, responded |-> FALSE,
     results |-> 0, no_of_results |-> 0, pass_requests |-> 0,
     delivered |-> <<>>, ended |-> FALSE, failed |-> FALSE]

\* no category is being fetched
PaginationIdle ==
    /\ fetching = NotFetching
    /\ stored_products = <<>>
    /\ category = NewCategory
    /\ advance = NotAdvanced

\* retry.rs 59-63: RetryPolicy::default()
DefaultPolicy == [total |-> 10, max_backoff |-> 120]

\* no retry() call was made
NotRetrying ==
    [calls |-> 0, position |-> "idle", fails_first |-> 0, retry_count |-> 0,
     requests |-> 0, failures |-> 0, sleeps |-> <<>>, outcome |-> "none",
     first_error |-> "none", error |-> "none", wrapped |-> "none", reported |-> 0,
     previous_outcome |-> "none", previous_failures |-> 0]

RetryIdle ==
    /\ policy = DefaultPolicy
    /\ retrying = NotRetrying

\* the file names (cache keys) of the model
Files == {"page_1.json", "page_2.json"}

\* marks a file that does not exist
NoFile == "absent"

\* FsCache::new on a directory without files
EmptyDir == [file \in Files |-> NoFile]

\* no get_or_fetch() call was made
NotCaching ==
    [calls |-> 0, file |-> "none", hit |-> FALSE, fetch_called |-> FALSE,
     fetched |-> "none", returned |-> "none", failure |-> "none",
     before |-> EmptyDir, first |-> EmptyDir, first_before |-> EmptyDir]

CacheIdle ==
    /\ files = EmptyDir
    /\ caching = NotCaching

\* no batch was converted
NotConverting ==
    [path |-> "none", items |-> <<>>, processed |-> 0, success |-> <<>>, failure |-> <<>>,
     fail_product |-> 0, snapshots |-> <<>>, outcome |-> "none"]

\* get_quantity_and_unit was not called
NotQuantifying ==
    [package_size |-> "", unit |-> "", cup_measure |-> "", cup_price |-> -1, price |-> 0,
     float |-> "finite", quantity |-> 0, branch |-> "none", outcome |-> "none"]

\* no store is being crawled
CrawlIdle == PaginationIdle /\ RetryIdle /\ CacheIdle

\* a file of output_dir that cannot be opened
NoHistory == [state |-> "absent", products |-> <<>>]

\* an output directory without a file
EmptyOutputDir ==
    [history |-> NoHistory,
     snapshots |-> [s \in Stores |-> [d \in Days |-> [state |-> "absent", price |-> 0]]],
     site |-> "absent"]

\* do_analysis was not called
NotAnalysing ==
    [position |-> "idle", type |-> [mode |-> "none", day |-> 0], store |-> NoStore,
     listing |-> <<>>, requested |-> <<>>, days |-> <<>>, merged |-> <<>>,
     previous_products |-> <<>>, products |-> <<>>, before |-> EmptyOutputDir,
     failure |-> "none", runs |-> 0]

\* do_sync was not called
NotSyncing ==
    [position |-> "idle", runs |-> 0, pages |-> 1, quick |-> FALSE, page |-> 1,
     requested |-> {}, served |-> {}, fetched |-> {}, start |-> EmptyDir,
     previous |-> [position |-> "idle", fetched |-> {}],
     snapshot |-> "absent", snapshot_before |-> "absent", cache_dir |-> "absent",
     failure |-> "none"]

\* the callers of the get_or_fetch race
Callers == {1, 2}

\* no HTTP client was built
NotRequesting ==
    [calls |-> 0, client |-> "none", version |-> FALSE, call |-> "none",
     position |-> "idle", retry_count |-> 0, outcomes |-> <<>>, requests |-> 0,
     sleeps |-> <<>>, outcome |-> "none"]

\* no caller has called get_or_fetch
NotRacing ==
    [position |-> [c \in Callers |-> "idle"],
     file |-> [c \in Callers |-> "none"],
     observed |-> [c \in Callers |-> "none"],
     resp |-> [c \in Callers |-> "none"],
     returned |-> [c \in Callers |-> "none"],
     fetches |-> [c \in Callers |-> 0],
     written |-> <<>>]

\* nothing was converted, analysed or synced, no client call and no race
PipelineIdle ==
    /\ converting = NotConverting
    /\ quantifying = NotQuantifying
    /\ output_dir = EmptyOutputDir
    /\ analysing = NotAnalysing
    /\ syncing = NotSyncing
    /\ requesting = NotRequesting
    /\ racing = NotRacing

\* analysis.rs: one day of do_analysis's loop
AnalyseDay(d, store_filter, batch) ==
    /\ day' = d
    /\ store' = store_filter
    /\ loaded' = batch
    /\ new_products' = DeduplicateProducts(batch)
    /\ previous_products' = products
    /\ products' = MergePriceHistory(products, DeduplicateProducts(batch), store_filter)
    /\ runs' = runs + 1
    /\ UNCHANGED <<search_hit, crawlVars, pipelineVars>>

DoAnalysis ==
    /\ runs < MaxRuns
    /\ \E d \in Days : \E store_filter \in StoreFilters :
          \E batch \in DailySnapshots(d, store_filter, MaxBatch) :
             AnalyseDay(d, store_filter, batch)

\* do_analysis on captures of at most one product a day
DoAnalysisOneProduct ==
    /\ runs < MaxDeepRuns
    /\ \E d \in Days : \E store_filter \in StoreFilters :
          \E batch \in DailySnapshots(d, store_filter, 1) :
             AnalyseDay(d, store_filter, batch)

\* do_analysis without --store on captures of at most one product a day
DoAnalysisAllStores ==
    /\ runs < MaxHistoryRuns
    /\ \E d \in Days : \E batch \in DailySnapshots(d, NoStore, 1) :
          AnalyseDay(d, NoStore, batch)

\* analysis.rs line 99 alone: deduplicate_products applied to the loaded batch
Deduplicate ==
    /\ runs = 0
    /\ new_products' = DeduplicateProducts(loaded)
    /\ runs' = 1
    /\ UNCHANGED <<products, previous_products, loaded, store, day, search_hit, crawlVars,
                   pipelineVars>>

\* no canonical history yet (History mode: load_history failed, Vec::new())
Init ==
    /\ products = <<>>
    /\ previous_products = <<>>
    /\ loaded = <<>>
    /\ new_products = <<>>
    /\ store = NoStore
    /\ day = 0
    /\ runs = 0
    /\ search_hit \in {"lowest", "highest"}
    /\ CrawlIdle
    /\ PipelineIdle

Next == DoAnalysis

Spec == Init /\ [][Next]_vars

DeepNext == DoAnalysisOneProduct

DeepSpec == Init /\ [][DeepNext]_vars

HistoryNext == DoAnalysisAllStores

HistorySpec == Init /\ [][HistoryNext]_vars

\* days merged in any order, a day before or after the ones merged already
DoAnalysisAnyOrder ==
    /\ runs < MaxDeepRuns
    /\ \E d \in Days : \E store_filter \in StoreFilters :
          \E batch \in DailySnapshots(d, store_filter, 1) :
             AnalyseDay(d, store_filter, batch)

\* analysis.rs 84-101: the days of a run are merged in ascending order (the sorted
\* list of history_days), starting from no histories; captures of at most one product
\* a day
DoAnalysisAscending ==
    /\ runs < MaxDeepRuns
    /\ \E d \in Days : \E store_filter \in StoreFilters :
          \E batch \in DailySnapshots(d, store_filter, 1) :
             /\ d > day
             /\ AnalyseDay(d, store_filter, batch)

AscendingNext == DoAnalysisAscending

AscendingSpec == Init /\ [][AscendingNext]_vars

\* any batch of one day's snapshots, before deduplication
DedupInit ==
    /\ products = <<>>
    /\ previous_products = <<>>
    /\ \E d \in Days :
          /\ day = d
          /\ loaded \in SeqsUpTo({s \in ProductSnapshots : s.price_snapshot.date = d},
                                 MaxDedupLen)
    /\ new_products = <<>>
    /\ store = NoStore
    /\ runs = 0
    /\ search_hit = "lowest"
    /\ CrawlIdle
    /\ PipelineIdle

DedupNext == Deduplicate

DedupSpec == DedupInit /\ [][DedupNext]_vars

-----------------------------------------------------------------------------
(* Properties of the latest merge_price_history call:                      *)
(* previous_products, new_products and store are its arguments, products   *)
(* is its result.                                                          *)

Range(s) == {s[i] : i \in 1..Len(s)}

IsSnapshotOfOld(snapshot, old) ==
    Key(old) = Key(snapshot) /\ ~FilteredOut(store, old)

\* the output histories of a key
MergedFor(k) == {h \in Range(products) : Key(h) = k}

NewestPrice(h) == h.price_history[1].price

NewestDate(h) == h.price_history[1].date

PriceDiffers(snapshot, old) == NewestPrice(old) # snapshot.price_snapshot.price

\* the (old history, snapshot) pairs of the latest call that share a ProductKey
MatchedPairs ==
    {pair \in Range(previous_products) \X Range(new_products) :
        IsSnapshotOfOld(pair[2], pair[1])}

\* C1 as stated: a snapshot matching an old history with a different price gives a
\* merged history one point longer whose first point is the snapshot's date and price
C1_FirstPointIsSnapshot ==
    \A pair \in MatchedPairs :
        PriceDiffers(pair[2], pair[1]) =>
            /\ MergedFor(Key(pair[1])) # {}
            /\ \A m \in MergedFor(Key(pair[1])) :
                  /\ Len(m.price_history) = Len(pair[1].price_history) + 1
                  /\ m.price_history[1] = pair[2].price_snapshot

\* C1 amended: a snapshot matching an old history with a different price gives a
\* merged history one point longer that holds the snapshot's point; that point is
\* the first one whenever the snapshot is dated later than the old newest point
C1_LongerAndFirstWhenNewer ==
    \A pair \in MatchedPairs :
        PriceDiffers(pair[2], pair[1]) =>
            /\ MergedFor(Key(pair[1])) # {}
            /\ \A m \in MergedFor(Key(pair[1])) :
                  /\ Len(m.price_history) = Len(pair[1].price_history) + 1
                  /\ pair[2].price_snapshot \in Range(m.price_history)
                  /\ pair[2].price_snapshot.date > NewestDate(pair[1])
                        => m.price_history[1] = pair[2].price_snapshot

\* a two-point history met a later-dated snapshot with another price
C1_Witness ==
    \E pair \in MatchedPairs :
        /\ PriceDiffers(pair[2], pair[1])
        /\ Len(pair[1].price_history) = 2
        /\ pair[2].price_snapshot.date > NewestDate(pair[1])
        /\ \E m \in MergedFor(Key(pair[1])) : Len(m.price_history) = 3

\* C2: a snapshot matching an old history whose newest price equals the snapshot's
\* price adds no point: the merged history is as long as the old one, whatever the
\* snapshot's date
C2_SamePriceSameLength ==
    \A pair \in MatchedPairs :
        ~PriceDiffers(pair[2], pair[1]) =>
            /\ MergedFor(Key(pair[1])) # {}
            /\ \A m \in MergedFor(Key(pair[1])) :
                  Len(m.price_history) = Len(pair[1].price_history)

\* a two-point history met a snapshot of its newest price dated another day
C2_Witness ==
    \E pair \in MatchedPairs :
        /\ ~PriceDiffers(pair[2], pair[1])
        /\ Len(pair[1].price_history) = 2
        /\ pair[2].price_snapshot.date # NewestDate(pair[1])
        /\ \E m \in MergedFor(Key(pair[1])) : Len(m.price_history) = 2

SortedNewestFirst(price_history) ==
    \A i \in 1..Len(price_history) : \A j \in i..Len(price_history) :
        price_history[i].date >= price_history[j].date

\* C3: every history in the output of merge_price_history has its price points
\* sorted by date descending (newest first)
C3_SortedByDateDescending ==
    \A h \in Range(products) : SortedNewestFirst(h.price_history)

\* a snapshot dated between the two points of its history was merged in
C3_Witness ==
    \E pair \in MatchedPairs :
        /\ PriceDiffers(pair[2], pair[1])
        /\ Len(pair[1].price_history) = 2
        /\ pair[2].price_snapshot.date < pair[1].price_history[1].date
        /\ pair[2].price_snapshot.date > pair[1].price_history[2].date
        /\ \E m \in MergedFor(Key(pair[1])) : m.price_history[2] = pair[2].price_snapshot

OnePointPerDate(price_history) ==
    \A i \in 1..Len(price_history) : \A j \in 1..Len(price_history) :
        price_history[i].date = price_history[j].date => i = j

\* C4 as stated: after any sequence of merges of deduplicated batches every history
\* holds at most one price point per date
C4_OnePointPerDate ==
    \A h \in Range(products) : OnePointPerDate(h.price_history)

\* C5: every history in the output has at least one price point, and a history made
\* from a snapshot that matched no old history has exactly one
C5_NonEmptyHistories ==
    /\ \A h \in Range(products) : Len(h.price_history) >= 1
    /\ \A snapshot \in Range(new_products) :
          (\A old \in Range(previous_products) : ~IsSnapshotOfOld(snapshot, old))
              => /\ MergedFor(Key(snapshot)) # {}
                 /\ \A m \in MergedFor(Key(snapshot)) :
                       m.price_history = <<snapshot.price_snapshot>>

\* next to old histories, a history was created from a snapshot that matched none
C5_Witness ==
    /\ runs >= 1
    /\ \E snapshot \in Range(new_products) :
          /\ \A old \in Range(previous_products) : ~IsSnapshotOfOld(snapshot, old)
          /\ previous_products # <<>>
          /\ \E m \in MergedFor(Key(snapshot)) : Len(m.price_history) = 1

\* positions of loaded that hold the first snapshot of their ProductKey
FirstOccurrences ==
    {i \in 1..Len(loaded) : \A j \in 1..i - 1 : Key(loaded[j]) # Key(loaded[i])}

\* the n-th smallest position of FirstOccurrences
NthFirstOccurrence(n) ==
    CHOOSE i \in FirstOccurrences : Cardinality({j \in FirstOccurrences : j <= i}) = n

\* C6: deduplicate_products returns exactly one snapshot per ProductKey of the
\* input, the first occurrence, the kept snapshots in input order
C6_FirstOccurrenceKept ==
    runs = 1 =>
        /\ Len(new_products) = Cardinality(FirstOccurrences)
        /\ \A n \in 1..Len(new_products) :
              new_products[n] = loaded[NthFirstOccurrence(n)]
        /\ \A i \in 1..Len(loaded) :
              Cardinality({n \in 1..Len(new_products) :
                              Key(new_products[n]) = Key(loaded[i])}) = 1

\* a batch of three with the first key repeated behind another key was deduplicated
C6_Witness ==
    /\ runs = 1
    /\ Len(loaded) = 3
    /\ Key(loaded[1]) = Key(loaded[3])
    /\ loaded[1] # loaded[3]
    /\ Key(loaded[1]) # Key(loaded[2])
    /\ new_products = <<loaded[1], loaded[2]>>

C8_InfoReplaced ==
    \A pair \in MatchedPairs :
        /\ MergedFor(Key(pair[1])) # {}
        /\ \A m \in MergedFor(Key(pair[1])) : m.product_info = pair[2].product_info

\* an unchanged price and a changed price both arrived with a changed ProductInfo
C8_Witness ==
    /\ \E pair \in MatchedPairs :
          /\ ~PriceDiffers(pair[2], pair[1])
          /\ pair[1].product_info # pair[2].product_info
    /\ \E pair \in MatchedPairs :
          /\ PriceDiffers(pair[2], pair[1])
          /\ pair[1].product_info # pair[2].product_info

\* the old histories of the other stores, in input order
OtherStores == SelectSeq(previous_products, LAMBDA h : FilteredOut(store, h))

\* C9: the output is the old histories of the other stores followed by one history
\* per new snapshot; an old history of the filter's store (any, without a filter)
\* whose ProductKey is not in the batch is absent from it
C9_MissingProductsDropped ==
    /\ Len(products) = Len(OtherStores) + Len(new_products)
    /\ SubSeq(products, 1, Len(OtherStores)) = OtherStores
    /\ \A i \in 1..Len(new_products) :
          Key(products[Len(OtherStores) + i]) = Key(new_products[i])
    /\ \A old \in Range(previous_products) :
          (/\ ~FilteredOut(store, old)
           /\ \A snapshot \in Range(new_products) : Key(snapshot) # Key(old))
              => \A h \in Range(products) : Key(h) # Key(old)

\* of two old histories of the filter's store one was matched and the other dropped
C9_Witness ==
    /\ Len(previous_products) = 2
    /\ \A old \in Range(previous_products) : ~FilteredOut(store, old)
    /\ Len(new_products) = 1
    /\ MatchedPairs # {}
    /\ Len(products) = 1

\* C11: merge_price_history is idempotent in the batch: merging the batch of the
\* latest call into that call's result again gives the same histories, with no
\* further price point
C11_MergeIdempotent ==
    runs >= 1 => MergePriceHistory(products, new_products, store) = products

-----------------------------------------------------------------------------
(* Paginated category fetch: woolies Category::fetch_products, a loop over *)
(* get_category, and coles Category, an Iterator whose next() fetches a    *)
(* page when its buffer is empty.                                          *)

\* items on one page, and the largest total_record_count / no_of_results a page reports
MaxPageItems == 2
MaxTotal == 3

\* fetch_products calls on one woolies Category, and the pages one call is followed for
MaxFetchCalls == 2
MaxPages == 6

\* next() calls on one coles Category
MaxCalls == 7

\* the items of page p when it holds n of them
PageItems(p, n) == [i \in 1..n |-> <<p, i>>]

\* what get_category(page) can return: the decoded page, or the error of
\* cache.get_or_fetch ("fetch") or of serde_json::from_str ("decode")
PageResults(p) ==
    {[error |-> "none", items |-> PageItems(p, n), total |-> t] :
        n \in 0..MaxPageItems, t \in 0..MaxTotal}
    \cup {[error |-> e, items |-> <<>>, total |-> 0] : e \in {"fetch", "decode"}}

\* the loop's exit test without its zero-items disjunct
BreaksOnTotalOrQuick(product_count, total_record_count, new_product_count, quick) ==
    \/ product_count >= total_record_count
    \/ quick

\* woolies/category.rs 96-101: the exit test of fetch_products's loop
LoopBreaks(product_count, total_record_count, new_product_count, quick) ==
    \/ product_count >= total_record_count
    \/ new_product_count = 0
    \/ quick

\* woolies/category.rs 83-101: one turn of the loop on the result of get_category
LoopTurn(f, result) ==
    IF result.error # "none"
    THEN [f EXCEPT !.position = "returned", !.outcome = result.error,
                   !.requested = Append(@, f.page), !.responded = FALSE]
    ELSE [f EXCEPT !.requested = Append(@, f.page),
                   !.responded = TRUE,
                   !.new_product_count = Len(result.items),
                   !.total_record_count = result.total,
                   !.page = f.page + 1,
                   !.products = f.products \o result.items,
                   !.position = IF LoopBreaks(Len(f.products \o result.items), result.total,
                                              Len(result.items), f.quick)
                                THEN "returned" ELSE "loop",
                   !.outcome = IF LoopBreaks(Len(f.products \o result.items), result.total,
                                             Len(result.items), f.quick)
                               THEN "ok" ELSE "none"]

\* a turn of the loop and, when it left the loop normally, lines 103-104
Turn(f, result) ==
    /\ fetching' = LoopTurn(f, result)
    /\ stored_products' = IF LoopTurn(f, result).outcome = "ok"
                          THEN LoopTurn(f, result).products
                          ELSE stored_products
    /\ UNCHANGED <<mergeVars, store, category, advance, retryVars, cacheVars,
                   pipelineVars>>

\* fetch_products is called (lines 81-82) and requests page 1
FetchProducts ==
    /\ store = "woolies"
    /\ fetching.position # "loop"
    /\ fetching.calls < MaxFetchCalls
    /\ \E quick \in BOOLEAN : \E result \in PageResults(1) :
          Turn([NotFetching EXCEPT !.quick = quick, !.calls = fetching.calls + 1], result)

\* fetch_products goes round its loop and requests the next page
FetchProductsLoop ==
    /\ store = "woolies"
    /\ fetching.position = "loop"
    /\ fetching.page <= MaxPages
    /\ \E result \in PageResults(fetching.page) : Turn(fetching, result)

\* the buffer is emptied and only its last item is handed over
PopAndClear(c, a, buf) ==
    /\ category' = [c EXCEPT !.buf = <<>>]
    /\ advance' = [a EXCEPT !.calls = @ + 1,
                            !.yielded = IF Len(buf) = 0 THEN "end" ELSE "item",
                            !.delivered = IF Len(buf) = 0 THEN @
                                          ELSE Append(@, buf[Len(buf)]),
                            !.ended = @ \/ Len(buf) = 0]

\* coles/category.rs 306: self.buf.pop().map(Ok) on the buffer `buf`
Pop(c, a, buf) ==
    /\ category' = [c EXCEPT !.buf = IF Len(buf) = 0 THEN <<>>
                                     ELSE SubSeq(buf, 1, Len(buf) - 1)]
    /\ advance' = [a EXCEPT !.calls = @ + 1,
                            !.yielded = IF Len(buf) = 0 THEN "end" ELSE "item",
                            !.delivered = IF Len(buf) = 0 THEN @
                                          ELSE Append(@, buf[Len(buf)]),
                            !.ended = @ \/ Len(buf) = 0]

\* the page request of next(), told from the requests of one pass over the sequence
Requested(a, page) ==
    [a EXCEPT !.requested = Append(@, page),
              !.pass_requests = IF a.ended \/ a.failed THEN @ ELSE @ + 1]

\* finished is raised also by a page without items
FinishedOnTotalOrEmpty(finished, product_count, no_of_results, results) ==
    finished \/ product_count >= no_of_results \/ results = 0

\* coles/category.rs 295-297: the test that sets self.finished
Finished(finished, product_count, no_of_results, results) ==
    finished \/ product_count >= no_of_results

\* coles/category.rs 287-306: next() finds the buffer empty and requests a page
NextPage(result) ==
    IF result.error # "none"
    THEN /\ category' = category
         /\ advance' = [Requested(advance, category.page) EXCEPT
                            !.calls = @ + 1, !.yielded = "failure", !.failed = TRUE]
    ELSE Pop([category EXCEPT
                 !.product_count = @ + Len(result.items),
                 !.page = @ + 1,
                 !.finished = Finished(@, category.product_count + Len(result.items),
                                       result.total, Len(result.items))],
             [Requested(advance, category.page) EXCEPT
                 !.responded = TRUE,
                 !.results = Len(result.items),
                 !.no_of_results = result.total],
             result.items)

\* coles/category.rs 286-307: one call of Iterator::next
IteratorNext ==
    /\ store = "coles"
    /\ advance.calls < MaxCalls
    /\ IF Len(category.buf) = 0 /\ ~category.finished
       THEN \E result \in PageResults(category.page) : NextPage(result)
       ELSE Pop(category, advance, category.buf)
    /\ UNCHANGED <<mergeVars, store, fetching, stored_products, retryVars, cacheVars,
                   pipelineVars>>

\* do_sync crawls one store; nothing was fetched yet
PaginationInit ==
    /\ products = <<>>
    /\ previous_products = <<>>
    /\ loaded = <<>>
    /\ new_products = <<>>
    /\ day = 0
    /\ runs = 0
    /\ search_hit = "lowest"
    /\ store \in Stores
    /\ CrawlIdle
    /\ PipelineIdle

PaginationNext == FetchProducts \/ FetchProductsLoop \/ IteratorNext

PaginationSpec == PaginationInit /\ [][PaginationNext]_vars

\* the loop of fetch_products keeps running, and the sequence is advanced until it
\* signals its end or a failure
PaginationFairSpec ==
    /\ PaginationSpec
    /\ WF_vars(FetchProductsLoop)
    /\ WF_vars(IteratorNext)

-----------------------------------------------------------------------------
(* Properties of the paginated fetch *)

PageErrors == {"fetch", "decode"}

\* the pass over the coles sequence is over: next() signalled the end or a failure
PassOver == advance.ended \/ advance.failed

\* C12: a fetch_products call and a pass over the coles sequence request at most
\* MaxTotal pages, the largest total a page can report, and then come to an end,
\* whatever the pages report and hold: also when the total is never reached and a
\* page without items arrives first
C12_FetchTerminates ==
    /\ [](Len(fetching.requested) <= MaxTotal /\ advance.pass_requests <= MaxTotal)
    /\ (fetching.position = "loop") ~> (fetching.position = "returned")
    /\ (store = "coles") ~> PassOver

\* fetch_products returned normally after a second page without items, the
\* reported total still above the number of products it holds
C12_Witness ==
    /\ fetching.outcome = "ok"
    /\ ~fetching.quick
    /\ Len(fetching.requested) = 2
    /\ fetching.new_product_count = 0
    /\ Len(stored_products) = 1
    /\ fetching.total_record_count > Len(stored_products)

\* C13 as stated: after a page was fetched and decoded the fetch is finished if and
\* only if the running item total reached the page's reported total or the page
\* held no items; finished stays true and no page is requested once it is
C13_FinishedIffTotalOrEmpty ==
    /\ [](/\ fetching.responded =>
               ((fetching.position = "returned") <=>
                   \/ Len(fetching.products) >= fetching.total_record_count
                   \/ fetching.new_product_count = 0)
          /\ advance.responded =>
               (category.finished <=>
                   \/ category.product_count >= advance.no_of_results
                   \/ advance.results = 0))
    /\ [][/\ category.finished =>
               category'.finished /\ advance'.requested = advance.requested
          /\ (fetching.position = "returned" /\ fetching'.calls = fetching.calls) =>
               fetching' = fetching]_vars

\* C14 as stated: a failed page fetch or decode is surfaced as one failed step, not
\* as the end of the sequence; no page is requested after it and the stored
\* product list of the category is as it was
C14_FailureHaltsIteration ==
    /\ [][/\ (fetching'.outcome \in PageErrors /\ fetching' # fetching) =>
               /\ fetching'.position = "returned"
               /\ stored_products' = stored_products
          /\ (fetching.outcome \in PageErrors /\ fetching'.calls = fetching.calls) =>
               fetching' = fetching
          /\ (~advance.failed /\ advance'.failed) =>
               /\ advance'.yielded = "failure"
               /\ category' = category
          /\ advance.failed => advance'.requested = advance.requested]_vars

-----------------------------------------------------------------------------
(* RetryPolicy::retry of retry.rs: up to `total` attempts of a request,    *)
(* sleeping get_backoff_time(retry_count) between two attempts.            *)

\* the largest `total` of a policy, and the retry() calls made on one policy
MaxAttempts == 10
MaxRetryCalls == 2

\* max_backoff in seconds: 0 as in the tests, 120 as in Default, 3 in between
MaxBackoffs == {0, 3, 120}

\* RetryPolicy::new(total, max_backoff); total is a NonZeroU32
Policies == [total : 1..MaxAttempts, max_backoff : MaxBackoffs]

\* the ureq::Error a failed attempt returns
RequestErrors == {"status", "transport"}

\* the backoff without the max_backoff cap
BackoffUncapped(p, retry_count) == 2 ^ retry_count

\* retry.rs 16-23: get_backoff_time, in seconds; 2u64.pow(retry_count) stays far
\* below 2^64 for the retry counts of the model
GetBackoffTime(p, retry_count) ==
    IF 2 ^ retry_count > p.max_backoff THEN p.max_backoff ELSE 2 ^ retry_count

\* the test for another attempt, true also at the last attempt
AttemptsRemainAlways(p, retry_count) == retry_count < p.total

\* retry.rs 33: if retry_count < self.total.get() - 1
AttemptsRemain(p, retry_count) == retry_count < p.total - 1

\* the error wrapped is the one of the first failed attempt
WrappedFirstError(first_error, error) == first_error

\* retry.rs 48: anyhow::Error::new(error), the error of the attempt that gives up
WrappedError(first_error, error) == error

\* a call that goes on where the call before it stopped
StartRetryResuming(r, fails_first) ==
    [r EXCEPT !.calls = @ + 1, !.position = "loop", !.fails_first = fails_first,
              !.requests = 0, !.failures = 0, !.outcome = "none",
              !.previous_outcome = r.outcome, !.previous_failures = r.failures]

\* retry.rs 25-29: a retry() call enters its loop, `for retry_count in 0..total`
StartRetry(r, fails_first) ==
    [NotRetrying EXCEPT !.calls = r.calls + 1, !.position = "loop",
                        !.fails_first = fails_first,
                        !.previous_outcome = r.outcome,
                        !.previous_failures = r.failures]

\* retry.rs 30-53: one turn of the loop; `error` is what request() returned,
\* "none" standing for Ok(response)
Attempt(r, error) ==
    IF error = "none"
    THEN [r EXCEPT !.requests = @ + 1, !.position = "returned", !.outcome = "ok"]
    ELSE IF AttemptsRemain(policy, r.retry_count)
    THEN [r EXCEPT !.requests = @ + 1,
                   !.failures = @ + 1,
                   !.first_error = IF @ = "none" THEN error ELSE @,
                   !.error = error,
                   !.sleeps = Append(@, GetBackoffTime(policy, r.retry_count)),
                   !.retry_count = @ + 1,
                   \* line 55: the loop ran out of retry counts
                   !.position = IF r.retry_count + 1 < policy.total
                                THEN "loop" ELSE "returned",
                   !.outcome = IF r.retry_count + 1 < policy.total
                               THEN "none" ELSE "panic"]
    ELSE [r EXCEPT !.requests = @ + 1,
                   !.failures = @ + 1,
                   !.first_error = IF @ = "none" THEN error ELSE @,
                   !.error = error,
                   !.position = "returned",
                   !.outcome = "err",
                   !.wrapped = WrappedError(IF r.first_error = "none" THEN error
                                            ELSE r.first_error, error),
                   !.reported = r.retry_count]

\* what request() returns at the next attempt of a request that fails on its first
\* fails_first attempts
RequestResults(r) ==
    IF r.requests < r.fails_first THEN RequestErrors ELSE {"none"}

\* retry() is called with a request and makes its first attempt
Retry ==
    /\ retrying.position # "loop"
    /\ retrying.calls < MaxRetryCalls
    /\ \E fails_first \in 0..MaxAttempts :
          \E error \in RequestResults(StartRetry(retrying, fails_first)) :
             retrying' = Attempt(StartRetry(retrying, fails_first), error)
    /\ UNCHANGED <<mergeVars, store, paginationVars, policy, cacheVars, pipelineVars>>

\* retry() makes a further attempt
RetryLoop ==
    /\ retrying.position = "loop"
    /\ \E error \in RequestResults(retrying) : retrying' = Attempt(retrying, error)
    /\ UNCHANGED <<mergeVars, store, paginationVars, policy, cacheVars, pipelineVars>>

\* some policy, no call made yet
RetryInit ==
    /\ products = <<>>
    /\ previous_products = <<>>
    /\ loaded = <<>>
    /\ new_products = <<>>
    /\ day = 0
    /\ runs = 0
    /\ search_hit = "lowest"
    /\ store = NoStore
    /\ PaginationIdle
    /\ policy \in Policies
    /\ retrying = NotRetrying
    /\ CacheIdle
    /\ PipelineIdle

RetryNext == Retry \/ RetryLoop

RetrySpec == RetryInit /\ [][RetryNext]_vars

-----------------------------------------------------------------------------
(* Properties of retry() *)

Min(a, b) == IF a < b THEN a ELSE b

\* C15: a retry() call that returned made min(k + 1, total) attempts of a request
\* failing on its first k attempts, and returned Ok if k < total and the wrapped
\* error otherwise
C15_AttemptsAndOutcome ==
    retrying.position = "returned" =>
        /\ retrying.requests = Min(retrying.fails_first + 1, policy.total)
        /\ retrying.outcome = "ok" <=> retrying.fails_first < policy.total
        /\ retrying.outcome = "err" <=> retrying.fails_first >= policy.total

\* a request failing twice succeeded at the third of three attempts
C15_Witness ==
    /\ policy.total = 3
    /\ retrying.fails_first = 2
    /\ retrying.outcome = "ok"
    /\ retrying.requests = 3

\* C16: a retry() call made after another one on the same policy starts again at
\* attempt index 0: it has the whole budget of `total` attempts and its first sleep
\* is the initial backoff, whatever the call before it did
C16_FreshCall ==
    retrying.calls >= 2 =>
        /\ retrying.requests <= policy.total
        /\ retrying.retry_count = Min(retrying.failures, policy.total - 1)
        /\ retrying.outcome = "err" => retrying.requests = policy.total
        /\ Len(retrying.sleeps) = Min(retrying.failures, policy.total - 1)
        /\ Len(retrying.sleeps) >= 1 =>
              retrying.sleeps[1] = Min(policy.max_backoff, 1)

\* after a call that used up its attempts, a second call failed total - 1 times,
\* slept one second first and succeeded at its last attempt
C16_Witness ==
    /\ retrying.calls = 2
    /\ policy.total >= 3
    /\ retrying.previous_outcome = "err"
    /\ retrying.previous_failures = policy.total
    /\ retrying.outcome = "ok"
    /\ retrying.requests = policy.total
    /\ retrying.sleeps[1] = 1

\* C17: the i-th failed attempt (index i - 1) is followed by a sleep of
\* min(max_backoff, 2^(i-1)) seconds if attempts remain; there is no sleep after
\* the last attempt or after a success, so a call with f failed attempts has slept
\* min(f, total - 1) times
C17_BackoffSchedule ==
    /\ Len(retrying.sleeps) = Min(retrying.failures, policy.total - 1)
    /\ \A i \in 1..Len(retrying.sleeps) :
          retrying.sleeps[i] = Min(policy.max_backoff, 2 ^ (i - 1))

\* four failed attempts of four: sleeps of 1 s, 2 s and the cap of 3 s, none after
\* the last failure
C17_Witness ==
    /\ policy.total = 4
    /\ policy.max_backoff = 3
    /\ retrying.outcome = "err"
    /\ retrying.failures = 4
    /\ retrying.sleeps = <<1, 2, 3>>

\* C18 as stated: when all attempts failed the returned error wraps the error of
\* the last attempt and reports the number of attempts made, `total`
C18_ReportsAttemptsMade ==
    retrying.outcome = "err" =>
        /\ retrying.requests = policy.total
        /\ retrying.wrapped = retrying.error
        /\ retrying.reported = retrying.requests

\* C18 amended: when all attempts failed the returned error wraps the error of the
\* last attempt and reports the index of that attempt, total - 1: the number of
\* retries, one less than the attempts made
C18_ReportsRetries ==
    retrying.outcome = "err" =>
        /\ retrying.requests = policy.total
        /\ retrying.wrapped = retrying.error
        /\ retrying.reported = policy.total - 1

\* three attempts failed, the first and the last with different errors
C18_Witness ==
    /\ policy.total = 3
    /\ retrying.outcome = "err"
    /\ retrying.first_error # retrying.error
    /\ retrying.wrapped = retrying.error
    /\ retrying.reported = 2

-----------------------------------------------------------------------------
(* FsCache::get_or_fetch of cache.rs on one cache directory. `files` maps  *)
(* each file name to its content, NoFile when the file does not exist.     *)

\* get_or_fetch calls on one cache directory
MaxCacheCalls == 4

\* what a fetch callback can return as Ok(String)
Contents == {"1", "2"}

\* what File::create leaves when write_all fails before writing anything
Truncated == ""

\* the path is never found
PathNeverExists(fs, file) == FALSE

\* cache.rs 38: path.exists()
PathExists(fs, file) == fs[file] # NoFile

\* cache.rs 26-28: load, read_to_string; io = "read" is its io::Error
Load(fs, file, io) == IF io = "ok" THEN fs[file] ELSE "error"

\* every file of the directory is overwritten
StoreAll(fs, file, resp, io) == [f \in Files |-> resp]

\* cache.rs 16-24: store; io names the call that fails, if any: create_dir_all and
\* File::create leave no file, write_all leaves the file File::create made
Store(fs, file, resp, io) ==
    CASE io = "ok" -> [fs EXCEPT ![file] = resp]
      [] io = "write_all" -> [fs EXCEPT ![file] = Truncated]
      [] OTHER -> fs

\* cache.rs 31-49 on a hit: Ok(self.load(&path)?)
Hit(c, file, io) ==
    /\ files' = files
    /\ caching' = [c EXCEPT !.file = file, !.hit = TRUE, !.fetch_called = FALSE,
                            !.fetched = "none",
                            !.returned = Load(files, file, io),
                            !.failure = IF io = "ok" THEN "none" ELSE io,
                            !.first = IF io = "ok" /\ c.first[file] = NoFile
                                      THEN [@ EXCEPT ![file] = Load(files, file, io)]
                                      ELSE @]

\* cache.rs 31-49 on a miss: let resp = fetch()?; self.store(&path, &resp)?; Ok(resp)
Miss(c, file, resp, io) ==
    IF resp = "error"
    THEN /\ files' = files
         /\ caching' = [c EXCEPT !.file = file, !.hit = FALSE, !.fetch_called = TRUE,
                                 !.fetched = resp, !.returned = "error",
                                 !.failure = "fetch"]
    ELSE /\ files' = Store(files, file, resp, io)
         /\ caching' = [c EXCEPT !.file = file, !.hit = FALSE, !.fetch_called = TRUE,
                                 !.fetched = resp,
                                 !.returned = IF io = "ok" THEN resp ELSE "error",
                                 !.failure = IF io = "ok" THEN "none" ELSE io,
                                 !.first = IF io = "ok" /\ c.first[file] = NoFile
                                           THEN [@ EXCEPT ![file] = resp]
                                           ELSE @]

\* cache.rs 31-49: one call of get_or_fetch(file, fetch)
GetOrFetch ==
    /\ caching.calls < MaxCacheCalls
    /\ \E file \in Files :
          LET c == [caching EXCEPT !.calls = @ + 1, !.before = files,
                                   !.first_before = caching.first]
          IN  IF PathExists(files, file)
              THEN \E io \in {"ok", "read"} : Hit(c, file, io)
              ELSE \E resp \in Contents \cup {"error"} :
                      \E io \in {"ok", "create_dir_all", "create", "write_all"} :
                         Miss(c, file, resp, io)
    /\ UNCHANGED <<mergeVars, store, paginationVars, retryVars, pipelineVars>>

\* a new cache directory
CacheInit ==
    /\ products = <<>>
    /\ previous_products = <<>>
    /\ loaded = <<>>
    /\ new_products = <<>>
    /\ day = 0
    /\ runs = 0
    /\ search_hit = "lowest"
    /\ store = NoStore
    /\ PaginationIdle
    /\ RetryIdle
    /\ CacheIdle
    /\ PipelineIdle

CacheNext == GetOrFetch

CacheSpec == CacheInit /\ [][CacheNext]_vars

-----------------------------------------------------------------------------
(* Properties of the latest get_or_fetch call: caching.before is the       *)
(* directory it found, files the directory it left.                        *)

\* C19 as stated: a call that finds the file returns its content without calling
\* fetch, and once a call for a file returned content every later call for that
\* file returns the same content
C19_HitReturnsCached ==
    caching.calls >= 1 =>
        /\ PathExists(caching.before, caching.file) =>
              /\ ~caching.fetch_called
              /\ caching.returned = caching.before[caching.file]
        /\ caching.first_before[caching.file] # NoFile =>
              caching.returned = caching.first_before[caching.file]

\* C19 amended: a call that finds the file never calls fetch and returns the file's
\* content unless reading it fails; once a call for a file returned content, every
\* later call for that file returns the same content or a read error, never
\* calling fetch
C19_HitNeverFetches ==
    caching.calls >= 1 =>
        /\ PathExists(caching.before, caching.file) =>
              /\ ~caching.fetch_called
              /\ \/ caching.returned = caching.before[caching.file]
                 \/ caching.failure = "read" /\ caching.returned = "error"
        /\ caching.first_before[caching.file] # NoFile =>
              /\ ~caching.fetch_called
              /\ \/ caching.returned = caching.first_before[caching.file]
                 \/ caching.failure = "read" /\ caching.returned = "error"

\* the third call for a file whose first call fetched and stored "1" returned "1"
C19_Witness ==
    /\ caching.calls = 3
    /\ caching.hit
    /\ caching.first_before[caching.file] = "1"
    /\ caching.returned = "1"
    /\ \A f \in Files \ {caching.file} : files[f] = NoFile

\* C20 as stated: a call changes the directory only on a miss whose fetch
\* succeeded, and then writes that file with the fetched content and returns it; a
\* hit writes nothing, a miss whose fetch fails writes nothing and returns the
\* error, and no other file is ever changed
C20_WritesOnlyOnMissWithFetch ==
    caching.calls >= 1 =>
        /\ \A f \in Files \ {caching.file} : files[f] = caching.before[f]
        /\ files # caching.before => ~caching.hit /\ caching.fetched \in Contents
        /\ caching.hit => files = caching.before
        /\ (~caching.hit /\ caching.fetched = "error") =>
              files = caching.before /\ caching.returned = "error"
        /\ (~caching.hit /\ caching.fetched \in Contents) =>
              /\ files[caching.file] = caching.fetched
              /\ caching.returned = caching.fetched

\* C20 amended: as stated, except that a miss whose fetch succeeded returns the
\* fetched content only if storing it succeeded; if create_dir_all or File::create
\* fails no file is written, if write_all fails the file is left truncated, and
\* the call returns the error
C20_WritesOnlyOwnFileOnMiss ==
    caching.calls >= 1 =>
        /\ \A f \in Files \ {caching.file} : files[f] = caching.before[f]
        /\ files # caching.before => ~caching.hit /\ caching.fetched \in Contents
        /\ caching.hit => files = caching.before
        /\ (~caching.hit /\ caching.fetched = "error") =>
              files = caching.before /\ caching.returned = "error"
        /\ (~caching.hit /\ caching.fetched \in Contents) =>
              \/ /\ caching.failure = "none"
                 /\ files[caching.file] = caching.fetched
                 /\ caching.returned = caching.fetched
              \/ /\ caching.failure \in {"create_dir_all", "create"}
                 /\ files = caching.before
                 /\ caching.returned = "error"
              \/ /\ caching.failure = "write_all"
                 /\ files[caching.file] = Truncated
                 /\ caching.returned = "error"

\* with another file already cached, a miss fetched "2", stored it and returned it
C20_Witness ==
    /\ ~caching.hit
    /\ caching.fetched = "2"
    /\ caching.returned = "2"
    /\ caching.before[caching.file] = NoFile
    /\ files[caching.file] = "2"
    /\ \E f \in Files \ {caching.file} : files[f] = "1" /\ caching.before[f] = "1"

-----------------------------------------------------------------------------
(* Conversion of one day's raw items into snapshots: conversion.rs,
   stores/coles/product.rs, stores/woolies/product.rs,
   stores/woolies/category.rs.

   A raw item is a JSON value; the model keeps of it its position in the
   batch and what the decoders make of it:
     "ok"          decodes and maps to a snapshot
     "undecodable" fails serde decoding (or is a bundle of 0 or 2+ products)
     "unmappable"  decodes, then try_into_snapshot_and_date fails
     "ad"          Coles only: _type SINGLE_TILE or CONTENT_ASSOCIATION with
                   a non-null adId *)

\* the longest batch
MaxItems == 21

ItemKinds == {"ok", "undecodable", "unmappable", "ad"}

\* the stores' ways from raw items to decoded products
ConversionPaths == {"coles_from_json_vec", "woolies_from_json_vec", "woolies_into_products"}

\* a batch of n items of which the items at i and j are of kinds ki and kj
Batch(n, i, ki, j, kj) ==
    [p \in 1..n |->
        [id |-> p, kind |-> IF p = i THEN ki ELSE IF p = j THEN kj ELSE "ok"]]

\* SearchResult::from_json_value: ads are told apart before serde runs
FromJsonValue(v) ==
    IF v.kind = "ad" THEN "AdResult"
    ELSE IF v.kind = "undecodable" THEN "Message"
    ELSE "Ok"

\* the partition_map of both from_json_vec: the items that decoded, in order
RECURSIVE Decoded(_)
Decoded(items) ==
    IF items = <<>> THEN <<>>
    ELSE IF Head(items).kind \in {"ok", "unmappable"}
         THEN <<Head(items)>> \o Decoded(Tail(items))
         ELSE Decoded(Tail(items))

\* ... and the errors of those that did not, in order
RECURSIVE DecodeErrors(_)
DecodeErrors(items) ==
    IF items = <<>> THEN <<>>
    ELSE IF Head(items).kind \in {"ok", "unmappable"}
         THEN DecodeErrors(Tail(items))
         ELSE <<[id |-> Head(items).id, error |-> FromJsonValue(Head(items))]>>
              \o DecodeErrors(Tail(items))

\* failure.into_iter().filter(|f| !matches!(f, Error::AdResult))
RECURSIVE FilterAdResults(_)
FilterAdResults(failure) ==
    IF failure = <<>> THEN <<>>
    ELSE IF Head(failure).error = "AdResult" THEN FilterAdResults(Tail(failure))
    ELSE <<Head(failure)>> \o FilterAdResults(Tail(failure))

\* a from_json_vec that leaves the ad results among the failures
SearchResultFromJsonVecKeepingAds(values) ==
    [success |-> Decoded(values), failure |-> DecodeErrors(values),
     processed |-> Len(values), ok |-> TRUE]

\* SearchResultConversion::from_json_vec
SearchResultFromJsonVec(values) ==
    [success |-> Decoded(values), failure |-> FilterAdResults(DecodeErrors(values)),
     processed |-> Len(values), ok |-> TRUE]

\* BundleConversion::from_json_vec
BundleFromJsonVec(values) ==
    [success |-> Decoded(values), failure |-> DecodeErrors(values),
     processed |-> Len(values), ok |-> TRUE]

\* the position of the first item that does not decode, 0 if all do
RECURSIVE FirstUndecodable(_, _)
FirstUndecodable(items, p) ==
    IF p > Len(items) THEN 0
    ELSE IF items[p].kind \in {"ok", "unmappable"} THEN FirstUndecodable(items, p + 1)
    ELSE p

\* woolies Category::into_products: collect() into anyhow::Result<Vec<_>> stops
\* at the first Err and drops what was collected
IntoProducts(values) ==
    LET stop == FirstUndecodable(values, 1) IN
    IF stop = 0
    THEN [success |-> values, failure |-> <<>>, processed |-> Len(values), ok |-> TRUE]
    ELSE [success |-> <<>>,
          failure |-> <<[id |-> values[stop].id, error |-> "Message"]>>,
          processed |-> stop, ok |-> FALSE]

\* a mapping that hands the snapshots back last item first
RECURSIVE SnapshotsReversed(_)
SnapshotsReversed(success) ==
    IF success = <<>> THEN <<>>
    ELSE IF Head(success).kind = "ok"
         THEN SnapshotsReversed(Tail(success)) \o <<[id |-> Head(success).id]>>
         ELSE SnapshotsReversed(Tail(success))

\* Product::try_into_snapshot_and_date applied to all, then partition_map:
\* the snapshots, in order
RECURSIVE Snapshots(_)
Snapshots(success) ==
    IF success = <<>> THEN <<>>
    ELSE IF Head(success).kind = "ok"
         THEN <<[id |-> Head(success).id]>> \o Snapshots(Tail(success))
         ELSE Snapshots(Tail(success))

\* CONVERSION_SUCCESS_THRESHOLD, in percent
CONVERSION_SUCCESS_THRESHOLD == 5

\* ConversionMetrics::failure_rate() > threshold; 0.0 / 0.0 is NaN, which is
\* not greater than anything
ExceedsThreshold(metrics) ==
    LET fail == metrics.fail_search_result + metrics.fail_product
        all == metrics.success + fail
    IN all > 0 /\ 100 * fail > CONVERSION_SUCCESS_THRESHOLD * all

\* Conversion::convert (and BundleConversion::validate_conversion, the same code)
Convert(conversion) ==
    LET snapshots == Snapshots(conversion.success)
        metrics == [success |-> Len(conversion.success),
                    fail_search_result |-> Len(conversion.failure),
                    fail_product |-> Len(conversion.success) - Len(snapshots)]
    IN IF ExceedsThreshold(metrics)
       THEN [ok |-> FALSE, metrics |-> metrics, snapshots |-> <<>>]
       ELSE [ok |-> TRUE, metrics |-> metrics, snapshots |-> snapshots]

\* one batch through decoding and convert
FromReader(path, items) ==
    LET conversion ==
            CASE path = "coles_from_json_vec" -> SearchResultFromJsonVec(items)
              [] path = "woolies_from_json_vec" -> BundleFromJsonVec(items)
              [] path = "woolies_into_products" -> IntoProducts(items)
        result == Convert(conversion)
    IN /\ converting' =
            IF ~conversion.ok
            THEN [path |-> path, items |-> items, processed |-> conversion.processed,
                  success |-> conversion.success, failure |-> conversion.failure,
                  fail_product |-> 0, snapshots |-> <<>>, outcome |-> "decode_error"]
            ELSE [path |-> path, items |-> items, processed |-> conversion.processed,
                  success |-> conversion.success, failure |-> conversion.failure,
                  fail_product |-> result.metrics.fail_product,
                  snapshots |-> result.snapshots,
                  outcome |-> IF result.ok THEN "ok" ELSE "threshold_exceeded"]
       /\ UNCHANGED <<mergeVars, store, crawlVars, quantifying, output_dir, analysing, syncing, clientVars>>

\* each run converts one batch or one product: the functions keep no state
ConvertBatch ==
    /\ PipelineIdle
    /\ \E path \in ConversionPaths, n \in 0..MaxItems :
        \E i, j \in 0..n, ki, kj \in ItemKinds :
            /\ i <= j
            /\ path # "coles_from_json_vec" => "ad" \notin {ki, kj}
            /\ FromReader(path, Batch(n, i, ki, j, kj))

(* BundleProduct::get_quantity_and_unit (stores/woolies/product.rs).  Sizes
   are the strings of the raw item; prices are f64 in the code, here whole
   numbers of cents: the function only uses their ratio.  None of the
   products below has an inexact half, so rounding the exact ratio is what
   f64 rounding gives. *)

\* the dearest price, in cents
MaxCents == 12

\* Option<f64>: None
NoCupPrice == -1

\* str::to_lowercase on the strings above
ToLowercase(s) ==
    CASE s = "Each" -> "each"
      [] s = "EA" -> "ea"
      [] OTHER -> s

\* unit::parse_str_unit: digits, then a known unit, times the unit's factor
ParseStrUnit(size) ==
    CASE ToLowercase(size) = "500g" -> [ok |-> TRUE, quantity |-> 500, unit |-> "Grams"]
      [] ToLowercase(size) = "1g" -> [ok |-> TRUE, quantity |-> 1, unit |-> "Grams"]
      [] ToLowercase(size) = "10g" -> [ok |-> TRUE, quantity |-> 10, unit |-> "Grams"]
      [] ToLowercase(size) = "100g" -> [ok |-> TRUE, quantity |-> 100, unit |-> "Grams"]
      [] ToLowercase(size) = "1kg" -> [ok |-> TRUE, quantity |-> 1000, unit |-> "Grams"]
      [] OTHER -> [ok |-> FALSE, quantity |-> 0, unit |-> "none"]

\* f64::round of a / b for a >= 0, b > 0: half away from zero
Round(a, b) == (2 * a + b) \div (2 * b)

\* the quantity below which a derived quantity is rejected
LowQuantity == 100

\* quantity < 100.0
Low(quantity) == quantity < LowQuantity

QuantityResult(product, float, quantity, branch, outcome) ==
    [package_size |-> product.package_size, unit |-> product.unit,
     cup_measure |-> product.cup_measure, cup_price |-> product.cup_price,
     price |-> product.price, float |-> float, quantity |-> quantity,
     branch |-> branch, outcome |-> outcome]

\* get_quantity_and_unit(price) on a product
GetQuantityAndUnit(product) ==
    LET size == ParseStrUnit(product.package_size)
        cup == ParseStrUnit(product.cup_measure)
        quantity == Round(product.price * cup.quantity, product.cup_price)
    IN /\ quantifying' =
            IF size.ok
            THEN QuantityResult(product, "finite", size.quantity, "package_size", "ok")
            ELSE IF /\ ToLowercase(product.unit) = "each"
                    /\ ToLowercase(product.package_size) = "each"
            THEN QuantityResult(product, "finite", 1, "each", "ok")
            ELSE IF ~cup.ok
            THEN QuantityResult(product, "finite", 0, "cup_measure", "parse_error")
            ELSE IF product.cup_price = NoCupPrice
            THEN QuantityResult(product, "finite", 0, "cup_price", "missing_cup_price")
            ELSE IF product.cup_price = 0
            \* x / 0.0 is inf, 0.0 / 0.0 is NaN: neither is < 100.0
            THEN QuantityResult(product, IF product.price = 0 THEN "nan" ELSE "inf", 0,
                                "derived", "ok")
            ELSE IF Low(quantity)
            THEN QuantityResult(product, "finite", quantity, "derived", "low_quantity")
            ELSE QuantityResult(product, "finite", quantity, "derived", "ok")
       /\ UNCHANGED <<mergeVars, store, crawlVars, converting, output_dir, analysing, syncing, clientVars>>

Quantify ==
    /\ PipelineIdle
    /\ \E package_size \in {"Each", "", "500g"}, unit \in {"Each", "EA"},
          cup_measure \in {"", "1g", "10g", "100g", "1kg"},
          cup_price \in {NoCupPrice} \cup (0..MaxCents), price \in 0..MaxCents :
        GetQuantityAndUnit([package_size |-> package_size, unit |-> unit,
                            cup_measure |-> cup_measure, cup_price |-> cup_price,
                            price |-> price])

ConversionInit ==
    /\ products = <<>>
    /\ previous_products = <<>>
    /\ loaded = <<>>
    /\ new_products = <<>>
    /\ store = NoStore
    /\ day = 0
    /\ runs = 0
    /\ search_hit = "lowest"
    /\ CrawlIdle
    /\ PipelineIdle

ConversionNext == ConvertBatch \/ Quantify

ConversionSpec == ConversionInit /\ [][ConversionNext]_vars

\* how many items of the batch are of one of the kinds
RECURSIVE CountKinds(_, _)
CountKinds(items, kinds) ==
    IF items = <<>> THEN 0
    ELSE (IF Head(items).kind \in kinds THEN 1 ELSE 0) + CountKinds(Tail(items), kinds)

\* convert ran on the batch: decoding handed it a success and a failure list
Converted == converting.outcome \in {"ok", "threshold_exceeded"}

\* C21: a batch fails exactly when failures / (successes + failures) exceeds
\* 5%, where the successes are the items that ended up as snapshots and the
\* failures are the items that failed decoding or mapping.
C21_FailsIffRateExceedsThreshold ==
    Converted =>
        LET success == CountKinds(converting.items, {"ok"})
            failure == CountKinds(converting.items, {"undecodable", "unmappable"})
        IN (converting.outcome = "threshold_exceeded")
               <=> (100 * failure > CONVERSION_SUCCESS_THRESHOLD * (success + failure))

\* the batch without its ad items
RECURSIVE WithoutAds(_)
WithoutAds(items) ==
    IF items = <<>> THEN <<>>
    ELSE IF Head(items).kind = "ad" THEN WithoutAds(Tail(items))
    ELSE <<Head(items)>> \o WithoutAds(Tail(items))

\* C22: an ad item of a Coles batch is left out of the conversion, counted
\* neither as a success nor as a failure: the decoded items, the failures,
\* the failure counts and the outcome are those of the batch without its ads.
C22_AdsCountNowhere ==
    converting.path = "coles_from_json_vec" =>
        LET conversion == SearchResultFromJsonVec(WithoutAds(converting.items))
            result == Convert(conversion)
        IN /\ converting.success = conversion.success
           /\ converting.failure = conversion.failure
           /\ converting.fail_product = result.metrics.fail_product
           /\ converting.snapshots = result.snapshots
           /\ (converting.outcome = "ok") <=> result.ok
           /\ \A k \in 1..Len(converting.success) : converting.success[k].kind # "ad"
           /\ \A k \in 1..Len(converting.failure) : converting.failure[k].error # "AdResult"

\* a batch of 19 good items, an ad and an item that does not decode passes:
\* counted as a failure, the ad would have made it fail
C22_Witness ==
    /\ converting.path = "coles_from_json_vec"
    /\ converting.outcome = "ok"
    /\ CountKinds(converting.items, {"ad"}) = 1
    /\ CountKinds(converting.items, {"undecodable"}) = 1
    /\ Len(converting.items) = 21

\* C23: an item that fails to decode is counted as exactly one conversion
\* failure, the items after it are still processed, and the batch is not
\* given up because of it other than through the threshold.
C23_DecodeFailureCountedOnce ==
    converting.outcome # "none" =>
        /\ Len(converting.failure) = CountKinds(converting.items, {"undecodable"})
        /\ converting.processed = Len(converting.items)
        /\ Converted

\* C24: in the Woolies cup-price fallback the derived quantity
\* round(price / cupPrice * cupMeasureQuantity) is rejected exactly when it
\* is below 10, and accepted when it is 10 or more.
C24_RejectedIffBelowTen ==
    (quantifying.branch = "derived" /\ quantifying.float = "finite") =>
        ((quantifying.outcome = "low_quantity") <=> (quantifying.quantity < 10))

\* C29: when the batch is at or below the threshold, convert returns exactly
\* the snapshots of the items whose mapping succeeded, in input order, and
\* nothing for the items that failed.
C29_ReturnsMappedInInputOrder ==
    converting.outcome = "ok" =>
        LET items == converting.items
            snapshots == converting.snapshots
        IN /\ Len(snapshots) = CountKinds(items, {"ok"})
           /\ \A k \in 1..Len(snapshots) : items[snapshots[k].id].kind = "ok"
           /\ \A p \in 1..Len(items) :
                 items[p].kind = "ok" => \E k \in 1..Len(snapshots) : snapshots[k].id = p
           /\ \A k, l \in 1..Len(snapshots) : k < l => snapshots[k].id < snapshots[l].id

\* a batch that passes with a failed mapping between items that map
C29_Witness ==
    /\ converting.outcome = "ok"
    /\ Len(converting.items) = MaxItems
    /\ \E p \in 2..(MaxItems - 1) : converting.items[p].kind = "unmappable"
    /\ Len(converting.snapshots) = MaxItems - 1

-----------------------------------------------------------------------------
(* do_analysis (analysis.rs) over the files of output_dir (storage.rs):
   the canonical history latest-canonical.json.gz, one snapshot file
   <store>/<day>.json.gz per store and day, and the files of the site.  A
   snapshot file holds the capture of the store's one product; a file that
   is there but does not convert is "corrupt".  The history file holds the
   histories serde wrote. *)

\* do_analysis runs on one output directory
MaxAnalysisRuns == 1

\* what <store>/<day>.json.gz can be
SnapshotFiles(s) ==
    {[state |-> "absent", price |-> 0]}
        \cup (IF s = "coles"
              THEN {[state |-> "corrupt", price |-> 0]}
                       \cup {[state |-> "ok", price |-> p] : p \in Prices}
              ELSE {[state |-> "ok", price |-> 50]})

\* coles::load_snapshot / woolies::load_snapshot of a file that converts
SnapshotOf(s, d, file) ==
    [product_info |-> [id |-> 1, name |-> "a", store |-> s],
     price_snapshot |-> [date |-> d, price |-> file.price]]

\* AnalysisType::Day(day) for each day, and AnalysisType::History
AnalysisTypes == {[mode |-> "Day", day |-> d] : d \in Days} \cup {[mode |-> "History", day |-> 0]}

\* the orders in which read_dir can list the days
ListingOrders == {order \in [1..MaxDay -> Days] : \A i, j \in 1..MaxDay : i # j => order[i] # order[j]}

\* storage::load_history
LoadHistory(dir) ==
    IF dir.history.state = "ok"
    THEN [ok |-> TRUE, products |-> dir.history.products]
    ELSE [ok |-> FALSE, products |-> <<>>]

\* a do_analysis that takes a history it cannot load for empty in every mode
HistoryErrorIgnored(type) == "empty"

\* analysis.rs 89-92: what a failed load_history leads to
OnHistoryError(type) == IF type.mode = "History" THEN "empty" ELSE "error"

\* store_filter.is_some_and(|s| s != store) does not skip the store
Wanted(store_filter, s) == store_filter = NoStore \/ store_filter = s

\* fs::read_dir of a store's directory, listed in `order`: the files in it; the
\* directory is there once a snapshot was saved into it
ReadDir(dir, s, order) ==
    SelectSeq(order, LAMBDA d : dir.snapshots[s][d].state # "absent")

\* the entries as pushed, left in listing order
KeepListingOrder(entries) == entries

\* entries.sort()
RECURSIVE SortDays(_)
SortDays(entries) ==
    IF entries = <<>> THEN <<>>
    ELSE LET x == Head(entries)
             rest == SortDays(Tail(entries))
         IN  SelectSeq(rest, LAMBDA d : d < x) \o <<x>> \o SelectSeq(rest, LAMBDA d : d >= x)

\* analysis::history_days
HistoryDays(dir, store_filter, order) ==
    LET coles == IF Wanted(store_filter, "coles") THEN ReadDir(dir, "coles", order) ELSE <<>>
        woolies == IF Wanted(store_filter, "woolies") THEN ReadDir(dir, "woolies", order)
                   ELSE <<>>
    IN  IF \E s \in Stores : Wanted(store_filter, s) /\ ReadDir(dir, s, order) = <<>>
        THEN [ok |-> FALSE, days |-> <<>>]
        ELSE [ok |-> TRUE, days |-> SortDays(coles \o woolies)]

\* AnalysisType::days
AnalysisDays(type, dir, store_filter, order) ==
    IF type.mode = "History" THEN HistoryDays(dir, store_filter, order)
    ELSE [ok |-> TRUE, days |-> <<type.day>>]

\* storage::load_daily_snapshot
LoadDailySnapshot(dir, d, store_filter) ==
    LET of(s) == IF Wanted(store_filter, s) THEN <<SnapshotOf(s, d, dir.snapshots[s][d])>>
                 ELSE <<>>
    IN  IF \E s \in Stores : Wanted(store_filter, s) /\ dir.snapshots[s][d].state # "ok"
        THEN [ok |-> FALSE, products |-> <<>>]
        ELSE [ok |-> TRUE, products |-> of("coles") \o of("woolies")]

\* storage::save_result; io names the call that fails, if any: File::create
\* leaves the file as it was, a failed write leaves what File::create truncated
SaveResult(dir, items, io) ==
    CASE io = "create" -> dir
      [] io = "write" -> [dir EXCEPT !.history = [state |-> "truncated", products |-> <<>>]]
      [] OTHER -> [dir EXCEPT !.history = [state |-> "ok", products |-> items]]

\* storage::save_to_site
SaveToSite(dir, io) == [dir EXCEPT !.site = IF io = "site" THEN "partial" ELSE "written"]

\* analysis.rs 87-97: load_history, then analysis_type.days
StartAnalysis ==
    /\ analysing.position \in {"idle", "done", "failed"}
    /\ analysing.runs < MaxAnalysisRuns
    /\ \E type \in AnalysisTypes, store_filter \in StoreFilters, order \in ListingOrders :
          LET history == LoadHistory(output_dir)
              days == AnalysisDays(type, output_dir, store_filter, order)
              run == [NotAnalysing EXCEPT !.type = type, !.store = store_filter,
                                          !.listing = order, !.before = output_dir,
                                          !.runs = analysing.runs + 1]
          IN  analysing' =
                  IF ~history.ok /\ OnHistoryError(type) = "error"
                  THEN [run EXCEPT !.position = "failed", !.failure = "load_history"]
                  ELSE IF ~days.ok
                  THEN [run EXCEPT !.position = "failed", !.failure = "days",
                                   !.previous_products = history.products,
                                   !.products = history.products]
                  ELSE [run EXCEPT !.position = "loop", !.requested = days.days,
                                   !.days = days.days,
                                   !.previous_products = history.products,
                                   !.products = history.products]
    /\ UNCHANGED <<mergeVars, store, crawlVars, converting, quantifying, output_dir, syncing, clientVars>>

\* the loop ends with its first day, whatever is left
LoopDoneAfterFirstDay(run) == run.merged # <<>> \/ run.days = <<>>

\* the for loop of do_analysis has no day left
LoopDone(run) == run.days = <<>>

\* analysis.rs 97-101: one turn of the loop
AnalysisLoop ==
    /\ analysing.position = "loop"
    /\ ~LoopDone(analysing)
    /\ LET d == Head(analysing.days)
           snapshot == LoadDailySnapshot(output_dir, d, analysing.store)
       IN  analysing' =
               IF ~snapshot.ok
               THEN [analysing EXCEPT !.position = "failed", !.failure = "load_daily_snapshot"]
               ELSE [analysing EXCEPT
                        !.days = Tail(@),
                        !.merged = Append(@, d),
                        !.products = MergePriceHistory(@,
                                        DeduplicateProducts(snapshot.products),
                                        analysing.store)]
    /\ UNCHANGED <<mergeVars, store, crawlVars, converting, quantifying, output_dir, syncing, clientVars>>

\* analysis.rs 102-104: save_result, save_to_site
FinishAnalysis ==
    /\ analysing.position = "loop"
    /\ LoopDone(analysing)
    /\ \E io \in {"ok", "create", "write", "site"} :
          /\ output_dir' =
                 IF io \in {"create", "write"}
                 THEN SaveResult(output_dir, analysing.products, io)
                 ELSE SaveToSite(SaveResult(output_dir, analysing.products, io), io)
          /\ analysing' =
                 CASE io = "ok" -> [analysing EXCEPT !.position = "done"]
                   [] io = "site" ->
                        [analysing EXCEPT !.position = "failed", !.failure = "save_to_site"]
                   [] OTHER ->
                        [analysing EXCEPT !.position = "failed", !.failure = "save_result"]
    /\ UNCHANGED <<mergeVars, store, crawlVars, converting, quantifying, syncing, clientVars>>

\* the histories an earlier run can have written
PersistedHistories ==
    {[state |-> "ok", products |-> <<>>]}
        \cup {[state |-> "ok",
               products |-> <<FromSnapshot(SnapshotOf("coles", 1, [state |-> "ok", price |-> p]))>>]
              : p \in Prices}

\* an output directory, with or without a history, before do_analysis
AnalysisInit ==
    /\ products = <<>>
    /\ previous_products = <<>>
    /\ loaded = <<>>
    /\ new_products = <<>>
    /\ day = 0
    /\ runs = 0
    /\ search_hit \in {"lowest", "highest"}
    /\ store = NoStore
    /\ CrawlIdle
    /\ converting = NotConverting
    /\ quantifying = NotQuantifying
    /\ syncing = NotSyncing
    /\ analysing = NotAnalysing
    /\ requesting = NotRequesting
    /\ racing = NotRacing
    /\ \E history \in PersistedHistories
                        \cup {NoHistory, [state |-> "corrupt", products |-> <<>>]} :
       \E snapshots \in [Stores -> [Days -> UNION {SnapshotFiles(s) : s \in Stores}]] :
          /\ \A s \in Stores, d \in Days : snapshots[s][d] \in SnapshotFiles(s)
          /\ output_dir = [history |-> history, snapshots |-> snapshots, site |-> "absent"]

AnalysisNext == StartAnalysis \/ AnalysisLoop \/ FinishAnalysis

AnalysisSpec == AnalysisInit /\ [][AnalysisNext]_vars

-----------------------------------------------------------------------------
(* Properties of do_analysis: analysing.before is the output directory the
   run found. *)

\* the run reached save_result
ReachedFinalWrite ==
    \/ analysing.position = "done"
    \/ analysing.position = "failed" /\ analysing.failure \in {"save_result", "save_to_site"}

\* C25: do_analysis writes the canonical history only after every requested
\* day was loaded, converted and merged; while the run has not reached the
\* final write, whether it goes on, has failed or stops there, the history
\* file is as the run found it.
C25_HistoryWrittenLast ==
    /\ (analysing.position # "idle" /\ ~ReachedFinalWrite) =>
          output_dir = analysing.before
    /\ ReachedFinalWrite =>
          /\ analysing.days = <<>>
          /\ analysing.merged = analysing.requested

\* a History run that merged a day and changed the histories in memory fails
\* on a later day: the history on disk is the one it found
C25_Witness ==
    /\ analysing.position = "failed"
    /\ analysing.failure = "load_daily_snapshot"
    /\ Len(analysing.merged) >= 1
    /\ analysing.before.history.state = "ok"
    /\ analysing.products # analysing.before.history.products
    /\ output_dir.history = analysing.before.history

\* C26: when the canonical history is absent or unreadable, do_analysis in
\* Day mode returns the error and writes nothing; in History mode it takes
\* the history for empty and goes on.
C26_HistoryErrorByMode ==
    (analysing.position # "idle" /\ analysing.before.history.state # "ok") =>
        IF analysing.type.mode = "Day"
        THEN /\ analysing.position = "failed"
             /\ analysing.failure = "load_history"
             /\ analysing.merged = <<>>
             /\ output_dir = analysing.before
        ELSE /\ analysing.failure # "load_history"
             /\ analysing.previous_products = <<>>

\* a History run that found an unreadable history has written a new one
C26_Witness ==
    /\ analysing.type.mode = "History"
    /\ analysing.before.history.state = "corrupt"
    /\ analysing.position = "done"
    /\ output_dir.history.state = "ok"
    /\ output_dir.history.products # <<>>

\* the points the captures of a store up to day d amount to: one per change
\* of price, the newest first
RECURSIVE PriceChanges(_, _, _)
PriceChanges(dir, s, d) ==
    IF d = 0 THEN <<>>
    ELSE LET earlier == PriceChanges(dir, s, d - 1)
             file == dir.snapshots[s][d]
         IN  IF file.state = "ok" /\ (earlier = <<>> \/ earlier[1].price # file.price)
             THEN <<[date |-> d, price |-> file.price]>> \o earlier
             ELSE earlier

-----------------------------------------------------------------------------
(* do_sync (sync.rs) on one store and one UTC day: the cache directory
   <cache_path>/<store>/<day> is `files`, its pages are read through
   get_or_fetch as woolies Category::get_category does, and
   syncing.snapshot is the day's snapshot file.  The store has one category
   of syncing.pages pages. *)

\* do_sync runs on the day
MaxSyncRuns == 3

\* a cache key that leaves the page number out
PageFileOfCategory(page) == "page_1.json"

\* the cache key of a page: format!("categories/{}/page_{}.json", node_id, page)
PageFile(page) == IF page = 1 THEN "page_1.json" ELSE "page_2.json"

\* sync.rs 38-55 and woolies::fetch up to the first page: the early returns,
\* create_dir_all of the cache directory, get_categories
SyncStart ==
    /\ syncing.position \in {"idle", "done", "failed", "skipped"}
    /\ syncing.runs < MaxSyncRuns
    /\ \E quick, print_save_path, skip_existing \in BOOLEAN,
          io \in {"ok", "create_dir_all", "get_categories"} :
          LET run == [syncing EXCEPT !.runs = @ + 1, !.quick = quick, !.page = 1,
                                     !.requested = {}, !.served = {}, !.fetched = {},
                                     !.start = files, !.failure = "none",
                                     !.snapshot_before = syncing.snapshot,
                                     !.previous = [position |-> syncing.position,
                                                   fetched |-> syncing.fetched]]
          IN  syncing' =
                  IF print_save_path \/ (skip_existing /\ syncing.snapshot # "absent")
                  THEN [run EXCEPT !.position = "skipped"]
                  ELSE IF io = "create_dir_all"
                  THEN [run EXCEPT !.position = "failed", !.failure = io]
                  ELSE IF io = "get_categories"
                  THEN [run EXCEPT !.position = "failed", !.failure = io,
                                   !.cache_dir = "present"]
                  ELSE [run EXCEPT !.position = "fetching", !.cache_dir = "present"]
    /\ UNCHANGED <<mergeVars, store, paginationVars, retryVars, cacheVars, converting,
                   quantifying, output_dir, analysing, clientVars>>

\* the get_category of the next page and the loop test of fetch_products
SyncPage ==
    /\ syncing.position = "fetching"
    /\ LET file == PageFile(syncing.page)
           c == [caching EXCEPT !.calls = @ + 1, !.before = files,
                                !.first_before = caching.first]
       IN  /\ IF PathExists(files, file)
              THEN \E io \in {"ok", "read"} : Hit(c, file, io)
              ELSE \E resp \in Contents \cup {"error"} :
                      \E io \in {"ok", "create_dir_all", "create", "write_all"} :
                         Miss(c, file, resp, io)
           /\ syncing' =
                  LET read == [syncing EXCEPT
                                  !.requested = IF caching'.fetch_called
                                                THEN @ \cup {file} ELSE @,
                                  !.fetched = IF caching'.fetched \in Contents
                                              THEN @ \cup {file} ELSE @,
                                  !.served = IF caching'.hit /\ caching'.returned # "error"
                                             THEN @ \cup {file} ELSE @]
                  IN  IF caching'.returned = "error"
                      THEN [read EXCEPT !.position = "failed", !.failure = "get_or_fetch"]
                      ELSE IF caching'.returned = Truncated
                      THEN [read EXCEPT !.position = "failed", !.failure = "from_str"]
                      ELSE IF syncing.page >= syncing.pages \/ syncing.quick
                      THEN [read EXCEPT !.position = "saving"]
                      ELSE [read EXCEPT !.page = @ + 1]
    /\ UNCHANGED <<mergeVars, store, paginationVars, retryVars, converting, quantifying,
                   output_dir, analysing, clientVars>>

\* the cache directory is removed whether or not the snapshot was saved
RemovesAlways(io) == TRUE

\* sync.rs 60-61: save_fetch_data(..)? comes before remove
Removes(io) == io = "ok"

\* sync.rs 60-62: save_fetch_data, then remove; io names the call of
\* save_fetch_data that fails, if any, and rm whether remove_dir_all fails, in
\* which case any of the files can be left
SyncSave ==
    /\ syncing.position = "saving"
    /\ \E io \in {"ok", "create_dir_all", "create", "write_all"}, rm \in {"ok", "remove"} :
       \E left \in SUBSET Files :
          /\ rm = "ok" => left = {}
          /\ files' = IF Removes(io)
                      THEN [f \in Files |-> IF f \in left THEN files[f] ELSE NoFile]
                      ELSE files
          /\ syncing' =
                 [syncing EXCEPT
                     !.snapshot = CASE io = "ok" -> "ok"
                                    [] io = "write_all" -> "truncated"
                                    [] OTHER -> @,
                     !.cache_dir = IF Removes(io) /\ rm = "ok" THEN "absent" ELSE @,
                     !.position = IF io = "ok" /\ rm = "ok" THEN "done" ELSE "failed",
                     !.failure = IF io # "ok" THEN "save_fetch_data"
                                 ELSE IF rm # "ok" THEN "remove" ELSE "none"]
    /\ UNCHANGED <<mergeVars, store, paginationVars, retryVars, caching, converting,
                   quantifying, output_dir, analysing, clientVars>>

\* a day on which do_sync was not yet called for the store
SyncInit ==
    /\ products = <<>>
    /\ previous_products = <<>>
    /\ loaded = <<>>
    /\ new_products = <<>>
    /\ day = 0
    /\ runs = 0
    /\ search_hit = "lowest"
    /\ store = "woolies"
    /\ CrawlIdle
    /\ converting = NotConverting
    /\ quantifying = NotQuantifying
    /\ output_dir = EmptyOutputDir
    /\ analysing = NotAnalysing
    /\ requesting = NotRequesting
    /\ racing = NotRacing
    /\ \E pages \in 1..2 : syncing = [NotSyncing EXCEPT !.pages = pages]

SyncNext == SyncStart \/ SyncPage \/ SyncSave

SyncSpec == SyncInit /\ [][SyncNext]_vars

-----------------------------------------------------------------------------
(* Properties of do_sync: syncing.start is the cache directory the run
   found, syncing.previous what the run before it did. *)

\* the run took a file out of the cache directory, or the directory itself
CacheRemoved ==
    \/ \E f \in Files : syncing.start[f] # NoFile /\ files[f] = NoFile
    \/ syncing.position \in {"fetching", "saving", "done", "failed"}
          /\ syncing.failure # "create_dir_all" /\ syncing.cache_dir = "absent"

\* the cache directory is removed only after the snapshot file was saved
RemovedOnlyAfterSave ==
    (syncing.position # "idle" /\ CacheRemoved) =>
        /\ syncing.snapshot = "ok"
        /\ syncing.position = "done" \/ syncing.failure = "remove"

-----------------------------------------------------------------------------
(* The coles paginated sequence once more *)

\* C30: the sequence signals its end only in a state where the buffer is
\* empty and finished is true (any advance before that yields an item or a
\* failure), and after it signalled its end further advances request no page.
C30_EndOnlyWhenFinished ==
    /\ [](advance.yielded = "end" => (Len(category.buf) = 0 /\ category.finished))
    /\ [][advance.ended => advance'.requested = advance.requested]_vars

Distinct(s) == \A i, j \in 1..Len(s) : s[i] = s[j] => i = j

\* the items handed over are distinct items <<page, position>> of requested pages
ItemsOfPages(items, pages) ==
    /\ Distinct(items)
    /\ \A i \in 1..Len(items) : \E k \in 1..Len(pages) : items[i][1] = pages[k]

\* C32: a pass that reached its end without a failure has delivered every item
\* of every fetched page exactly once: the items delivered are distinct items of
\* the fetched pages and their number is the running count, the sum of the page
\* sizes.
C32_EveryItemOnce ==
    /\ (advance.yielded = "end" /\ ~advance.failed) =>
          /\ Len(category.buf) = 0
          /\ Len(advance.delivered) = category.product_count
          /\ ItemsOfPages(advance.delivered, advance.requested)
    /\ fetching.outcome = "ok" =>
          /\ stored_products = fetching.products
          /\ ItemsOfPages(stored_products, fetching.requested)

\* a pass over two pages of two items and one item that reached its end
C32_Witness ==
    /\ advance.yielded = "end"
    /\ ~advance.failed
    /\ advance.requested = <<1, 2>>
    /\ Len(advance.delivered) = 3
    /\ category.finished

-----------------------------------------------------------------------------
(* The HTTP clients of the two stores. ColesHttpClient::get carries its own *)
(* retry loop; WooliesHttpClient::get and get_category run their requests   *)
(* through the RetryPolicy::retry of woolies/http.rs.                       *)

\* client calls per behaviour
MaxClientCalls == 2

\* coles/http.rs 104-122 and woolies/http.rs 163-186: the calls that send requests
ClientCalls ==
    [coles |-> {"get_setup_data", "get_categories", "get_category"},
     woolies |-> {"start", "get_categories", "get_category"}]

\* coles/http.rs 57-60: the retry_policy of new_client
ColesRetryPolicy == [total |-> 10, max_backoff |-> 120]

\* woolies/http.rs 156-159: the retry_policy of WooliesHttpClient::new
WooliesRetryPolicy == [total |-> 10, max_backoff |-> 120]

\* a backoff that is the cap from the first retry on
ColesBackoffAtCap(p, retry_count) == p.max_backoff

\* coles/http.rs 18-25: get_backoff_time of the client's own RetryPolicy
ColesGetBackoffTime(p, retry_count) ==
    IF 2 ^ retry_count > p.max_backoff THEN p.max_backoff ELSE 2 ^ retry_count

\* woolies/http.rs 20-27: get_backoff_time of the client's own RetryPolicy
WooliesGetBackoffTime(p, retry_count) ==
    IF 2 ^ retry_count > p.max_backoff THEN p.max_backoff ELSE 2 ^ retry_count

\* coles/http.rs 66-101: one turn of the loop of get; `error` is what
\* request.call() returned ("none" for Ok), `body` what response.into_string() did
ColesGet(g, error, body) ==
    IF error = "none"
    THEN [g EXCEPT !.requests = @ + 1, !.outcomes = Append(@, error),
                   !.position = "returned",
                   !.outcome = IF body = "ok" THEN "ok" ELSE "into_string"]
    ELSE IF g.retry_count < ColesRetryPolicy.total - 1
    THEN [g EXCEPT !.requests = @ + 1, !.outcomes = Append(@, error),
                   !.sleeps = Append(@, ColesGetBackoffTime(ColesRetryPolicy,
                                                            g.retry_count)),
                   !.retry_count = @ + 1,
                   \* line 101: the loop ran out of retry counts
                   !.position = IF g.retry_count + 1 < ColesRetryPolicy.total
                                THEN "loop" ELSE "returned",
                   !.outcome = IF g.retry_count + 1 < ColesRetryPolicy.total
                               THEN "none" ELSE "panic"]
    ELSE [g EXCEPT !.requests = @ + 1, !.outcomes = Append(@, error),
                   !.position = "returned", !.outcome = "err"]

\* woolies/http.rs 33-59 under 168-179 and 186-225: one turn of the loop of the
\* client's retry, and response.into_string() on what retry returned
WooliesGet(g, error, body) ==
    IF error = "none"
    THEN [g EXCEPT !.requests = @ + 1, !.outcomes = Append(@, error),
                   !.position = "returned",
                   !.outcome = IF body = "ok" THEN "ok" ELSE "into_string"]
    ELSE IF g.retry_count < WooliesRetryPolicy.total - 1
    THEN [g EXCEPT !.requests = @ + 1, !.outcomes = Append(@, error),
                   !.sleeps = Append(@, WooliesGetBackoffTime(WooliesRetryPolicy,
                                                              g.retry_count)),
                   !.retry_count = @ + 1,
                   \* line 59: the loop ran out of retry counts
                   !.position = IF g.retry_count + 1 < WooliesRetryPolicy.total
                                THEN "loop" ELSE "returned",
                   !.outcome = IF g.retry_count + 1 < WooliesRetryPolicy.total
                               THEN "none" ELSE "panic"]
    ELSE [g EXCEPT !.requests = @ + 1, !.outcomes = Append(@, error),
                   !.position = "returned", !.outcome = "err"]

\* the next attempt of the call in progress
ClientAttempt(g) ==
    \E error \in RequestErrors \cup {"none"} : \E body \in {"ok", "error"} :
        /\ error # "none" => body = "ok"
        /\ requesting' = IF g.client = "coles" THEN ColesGet(g, error, body)
                         ELSE WooliesGet(g, error, body)

\* a client is built (coles: with or without the setup data that holds `version`)
\* and one of its calls is made; coles/http.rs 113-117: get_category of a client
\* without version returns before it sends anything
ClientCall ==
    /\ requesting.position # "loop"
    /\ requesting.calls < MaxClientCalls
    /\ \E client \in Stores : \E call \in ClientCalls[client] :
          \E version \in IF client = "coles" THEN BOOLEAN ELSE {FALSE} :
             LET g == [NotRequesting EXCEPT !.calls = requesting.calls + 1,
                                            !.client = client,
                                            !.version = version,
                                            !.call = call,
                                            !.position = "loop"]
             IN  IF client = "coles" /\ call = "get_category" /\ ~version
                 THEN requesting' = [g EXCEPT !.position = "returned",
                                              !.outcome = "must_set_version"]
                 ELSE ClientAttempt(g)
    /\ UNCHANGED <<mergeVars, store, crawlVars, converting, quantifying, output_dir,
                   analysing, syncing, racing>>

\* the call in progress makes a further attempt
ClientRetry ==
    /\ requesting.position = "loop"
    /\ ClientAttempt(requesting)
    /\ UNCHANGED <<mergeVars, store, crawlVars, converting, quantifying, output_dir,
                   analysing, syncing, racing>>

\* no client call was made; `policy` is the RetryPolicy of retry.rs the calls are
\* compared with
ClientInit ==
    /\ products = <<>>
    /\ previous_products = <<>>
    /\ loaded = <<>>
    /\ new_products = <<>>
    /\ day = 0
    /\ runs = 0
    /\ search_hit = "lowest"
    /\ store = NoStore
    /\ CrawlIdle
    /\ PipelineIdle

ClientNext == ClientCall \/ ClientRetry

ClientSpec == ClientInit /\ [][ClientNext]_vars

\* RetryPolicy::retry of retry.rs run on a sequence of attempt outcomes
RECURSIVE RetryOn(_, _)
RetryOn(r, outcomes) ==
    IF outcomes = <<>> \/ r.position = "returned" THEN r
    ELSE RetryOn(Attempt(r, Head(outcomes)), Tail(outcomes))

\* C33: on every sequence of attempt outcomes each client call that sends
\* requests makes the attempts and the backoff sleeps that RetryPolicy::retry of
\* retry.rs makes with the same total and max_backoff, and succeeds or gives up
\* at the same attempt.
C33_SameRetryBehaviour ==
    (requesting.position # "idle" /\ requesting.outcome # "must_set_version") =>
        LET r == RetryOn(StartRetry(NotRetrying, 0), requesting.outcomes)
        IN  /\ policy = IF requesting.client = "coles" THEN ColesRetryPolicy
                        ELSE WooliesRetryPolicy
            /\ r.requests = requesting.requests
            /\ r.sleeps = requesting.sleeps
            /\ r.position = requesting.position
            /\ r.outcome = "ok" <=> requesting.outcome \in {"ok", "into_string"}
            /\ r.outcome = "err" <=> requesting.outcome = "err"
            /\ r.outcome = "none" <=> requesting.outcome = "none"

\* a coles category page call whose ten attempts failed, with the capped sleep
\* of 120 s after the eighth
C33_Witness ==
    /\ requesting.client = "coles"
    /\ requesting.call = "get_category"
    /\ requesting.outcome = "err"
    /\ requesting.requests = 10
    /\ Len(requesting.sleeps) = 9
    /\ requesting.sleeps[8] = 120

-----------------------------------------------------------------------------
(* Two callers run FsCache::get_or_fetch on one cache directory without     *)
(* synchronisation. The calls get_or_fetch makes on the file system are the *)
(* steps: path.exists(), read_to_string, File::create, write_all; fetch()   *)
(* is a step of its own. The io errors of the steps are left to the model   *)
(* of the single call above.                                                *)

\* write_all that leaves a file alone that another handle has written
WriteUnlessWritten(content, resp) == IF content = Truncated THEN resp ELSE content

\* cache.rs 23: file.write_all(resp.as_bytes()) from offset 0 of the handle's
\* file, whose content is `content`; the contents of the model have one length
WriteAll(content, resp) == resp

\* cache.rs 36-37: caller c calls get_or_fetch(file, fetch) and tests path.exists()
RaceExists(c) ==
    /\ racing.position[c] = "idle"
    /\ \E file \in Files :
          racing' = [racing EXCEPT
                        !.file[c] = file,
                        !.observed[c] = IF PathExists(files, file) THEN "hit" ELSE "miss",
                        !.position[c] = IF PathExists(files, file) THEN "load"
                                        ELSE "fetch"]
    /\ UNCHANGED <<mergeVars, store, crawlVars, converting, quantifying, output_dir,
                   analysing, syncing, requesting>>

\* cache.rs 40: Ok(self.load(&path)?) of a caller that found the file
RaceLoad(c) ==
    /\ racing.position[c] = "load"
    /\ racing' = [racing EXCEPT !.returned[c] = Load(files, racing.file[c], "ok"),
                                !.position[c] = "returned"]
    /\ UNCHANGED <<mergeVars, store, crawlVars, converting, quantifying, output_dir,
                   analysing, syncing, requesting>>

\* cache.rs 44: let resp = fetch()?
RaceFetch(c) ==
    /\ racing.position[c] = "fetch"
    /\ \E resp \in Contents \cup {"error"} :
          racing' = [racing EXCEPT
                        !.fetches[c] = @ + 1,
                        !.resp[c] = resp,
                        !.returned[c] = IF resp = "error" THEN "error" ELSE @,
                        !.position[c] = IF resp = "error" THEN "returned" ELSE "create"]
    /\ UNCHANGED <<mergeVars, store, crawlVars, converting, quantifying, output_dir,
                   analysing, syncing, requesting>>

\* cache.rs 19-22: create_dir_all and File::create, which truncates the file
RaceCreate(c) ==
    /\ racing.position[c] = "create"
    /\ files' = [files EXCEPT ![racing.file[c]] = Truncated]
    /\ racing' = [racing EXCEPT !.position[c] = "write"]
    /\ UNCHANGED <<mergeVars, store, paginationVars, retryVars, caching, converting,
                   quantifying, output_dir, analysing, syncing, requesting>>

\* cache.rs 23 and 46: write_all, then Ok(resp)
RaceWrite(c) ==
    /\ racing.position[c] = "write"
    /\ files' = [files EXCEPT ![racing.file[c]] = WriteAll(@, racing.resp[c])]
    /\ racing' = [racing EXCEPT !.position[c] = "returned",
                                !.returned[c] = racing.resp[c],
                                !.written = Append(@, c)]
    /\ UNCHANGED <<mergeVars, store, paginationVars, retryVars, caching, converting,
                   quantifying, output_dir, analysing, syncing, requesting>>

\* a new cache directory and two callers
RaceInit ==
    /\ products = <<>>
    /\ previous_products = <<>>
    /\ loaded = <<>>
    /\ new_products = <<>>
    /\ day = 0
    /\ runs = 0
    /\ search_hit = "lowest"
    /\ store = NoStore
    /\ CrawlIdle
    /\ PipelineIdle

RaceNext ==
    \E c \in Callers :
        RaceExists(c) \/ RaceLoad(c) \/ RaceFetch(c) \/ RaceCreate(c) \/ RaceWrite(c)

RaceSpec == RaceInit /\ [][RaceNext]_vars

\* both callers asked for the same key, found it absent and returned what they
\* fetched
BothMissed ==
    /\ racing.file[1] = racing.file[2]
    /\ \A c \in Callers : /\ racing.observed[c] = "miss"
                          /\ racing.position[c] = "returned"
                          /\ racing.resp[c] \in Contents

\* C34: get_or_fetch is not atomic. When two concurrent callers of the same
\* absent key both observe the miss, fetch is invoked once by each of them, each
\* returns what it fetched itself, and the file is left with what the caller that
\* wrote last fetched; so a caller can return content that differs from the file.
C34_BothFetchLastWriterWins ==
    BothMissed =>
        /\ \A c \in Callers : /\ racing.fetches[c] = 1
                              /\ racing.returned[c] = racing.resp[c]
        /\ Len(racing.written) = 2
        /\ files[racing.file[1]] = racing.resp[racing.written[2]]

\* both callers missed and fetched, and caller 1 returned content that is not
\* what the file holds in the end
C34_Witness ==
    /\ BothMissed
    /\ racing.fetches[1] + racing.fetches[2] = 2
    /\ racing.returned[1] # files[racing.file[1]]
    /\ files[racing.file[1]] = racing.returned[2]

-----------------------------------------------------------------------------
(* merge_price_history over the days of do_analysis: keys and price points *)

\* no two items of the sequence have the same ProductKey
UniqueKeys(items) ==
    \A i, j \in 1..Len(items) : Key(items[i]) = Key(items[j]) => i = j

Occurrences(price_history, point) ==
    Cardinality({i \in 1..Len(price_history) : price_history[i] = point})

\* C36: the merged history of a history matched by a snapshot holds every
\* (date, price) point of the old history as often as the old history held it,
\* and no other point except the snapshot's own, which it gains once exactly
\* when the snapshot's price differs from the newest recorded price.
C36_PointsKept ==
    \A pair \in MatchedPairs :
        /\ MergedFor(Key(pair[1])) # {}
        /\ \A h \in MergedFor(Key(pair[1])) : \A point \in PriceSnapshots :
              Occurrences(h.price_history, point) =
                  Occurrences(pair[1].price_history, point)
                  + IF PriceDiffers(pair[2], pair[1]) /\ point = pair[2].price_snapshot
                    THEN 1 ELSE 0

\* a history of two points gained the snapshot's point as its third
C36_Witness ==
    \E pair \in MatchedPairs : \E h \in MergedFor(Key(pair[1])) :
        /\ Len(pair[1].price_history) = 2
        /\ PriceDiffers(pair[2], pair[1])
        /\ Len(h.price_history) = 3
        /\ h.price_history[1] = pair[2].price_snapshot
        /\ \A i \in 1..2 : Occurrences(h.price_history, pair[1].price_history[i]) = 1

\* C37: when the days are merged in strictly ascending order, starting from no
\* histories, no history holds two adjacent price points with the same price.
C37_AdjacentPricesDiffer ==
    \A i \in 1..Len(products) :
        \A n \in 1..(Len(products[i].price_history) - 1) :
            products[i].price_history[n].price # products[i].price_history[n + 1].price

\* three days merged: the price of a product stayed on the second day and changed
\* on the third, and its history holds the points of the first and the third day
C37_Witness ==
    /\ runs = 3
    /\ \E i \in 1..Len(products) :
          /\ Len(products[i].price_history) = 2
          /\ products[i].price_history[1].date = 3
          /\ products[i].price_history[2].date = 1
          /\ \E k \in 1..Len(previous_products) :
                /\ Key(previous_products[k]) = Key(products[i])
                /\ Len(previous_products[k].price_history) = 1

FetchFailed ==
    /\ syncing.position = "failed"
    /\ syncing.failure \in {"get_categories", "get_or_fetch", "from_str"}

\* C39: do_sync writes the day's snapshot file only after every page of the
\* fetch succeeded. When a category or page fetch fails the run returns the
\* error, the snapshot file is as the run found it, and the cache directory is
\* kept with the pages fetched before the failing one and the files it had.
C39_SnapshotOnlyAfterFetch ==
    /\ syncing.snapshot # syncing.snapshot_before =>
          /\ syncing.position \in {"done", "failed"}
          /\ syncing.failure \in {"none", "save_fetch_data", "remove"}
    /\ FetchFailed =>
          /\ syncing.snapshot = syncing.snapshot_before
          /\ syncing.cache_dir = "present"
          /\ syncing.failure # "get_categories" =>
                \A page \in 1..(syncing.page - 1) : files[PageFile(page)] \in Contents
          /\ \A f \in Files : syncing.start[f] # NoFile => files[f] = syncing.start[f]

\* the first run of the day fetched page 1 and failed on page 2: there is no
\* snapshot file, and page 1 is in the cache directory
C39_Witness ==
    /\ FetchFailed
    /\ syncing.runs = 1
    /\ syncing.page = 2
    /\ syncing.fetched = {"page_1.json"}
    /\ syncing.snapshot = "absent"
    /\ syncing.cache_dir = "present"
    /\ files["page_1.json"] \in Contents
    /\ files["page_2.json"] = NoFile

\* C40: for every total >= 1 and every sequence of attempt outcomes the loop of
\* retry() returns from inside its body, Ok or the wrapped error; it never runs
\* out of retry counts, so the panic! after the loop is not reached.
C40_PanicUnreachable ==
    /\ policy.total >= 1
    /\ retrying.outcome # "panic"
    /\ retrying.position = "returned" => retrying.outcome \in {"ok", "err"}
    /\ retrying.position = "loop" => retrying.retry_count < policy.total

\* a policy of one attempt: the attempt failed and the call returned the error
\* from the body of the loop, without a sleep
C40_Witness ==
    /\ policy.total = 1
    /\ retrying.position = "returned"
    /\ retrying.outcome = "err"
    /\ retrying.requests = 1
    /\ retrying.sleeps = <<>>

=============================================================================
